---- MODULE Spec2Model ----
(***************************************************************************)
(* Model of the chunking / batched-analysis pipeline of the SEO auditor:   *)
(*   src/src/services/chunkService.js  (token estimation, chunking)        *)
(*   src/src/services/auditService.js  (dispatchers, retry, page batches,  *)
(*                                      response parser, scorers)          *)
(*   src/src/services/reportService.js, src/src/controllers/               *)
(*   auditController.js                (aggregators, analyzeWebsite)       *)
(*   src/scripts/run-workflow.js       (the run of the workflow)           *)
(*   src/src/controllers/crawlController.js, src/src/services/             *)
(*   crawlerService.js, src/server.js  (the crawl, concurrent requests)    *)
(*                                                                         *)
(* Specifications:                                                         *)
(*   SpecChunk     the chunking operations, one loop iteration per step    *)
(*   SpecRetry     one _callOpenAIWithRetry call, any number of retries      *)
(*   SpecDispatch  _processChunksOptimized over chunks                       *)
(*   SpecPages     analyzeIndividualPages over page batches                  *)
(*   SpecPagesFair SpecPages with the event loop's progress (weak fairness)  *)
(*   SpecParse     _parsePageAnalysisResponse on a batch and a reply         *)
(*   SpecImpact    _calculateEstimatedImpact on a score and a priority       *)
(*   SpecAggregate the aggregators of the reports on a list of analyses      *)
(*   SpecRank      the page rankings and the per-page summary                *)
(*   SpecWorkflow  a run of run-workflow.js, from module load to reports     *)
(*   SpecSiteChunk analyzeCSVData up to the return of its chunker            *)
(*   SpecSynthesis two runs of _generateFinalAnalysis for one site           *)
(*   SpecCache     the token cache under sequences of calls                  *)
(*   SpecConcurrent two POST /crawl-site requests running side by side       *)
(*   SpecCrawl     one CrawlerService.execute call                           *)
(*   SpecReports   the report directories of one analyzeWebsite run          *)
(***************************************************************************)
EXTENDS Integers, Sequences, FiniteSets, TLC

VARIABLES
    \* ---- ChunkService ----
    rows,          \* the input array of the running chunking call
    op,            \* the operation called ("none" when idle)
    args,          \* the arguments of the call
    cpc,           \* position in the chunking code: idle, loop, done
    mode,          \* the loop the call runs: bySize, byTokens, efficient, pageBatches
    chunkSize,     \* chunkSize of the running size-based loop
    tokenLimit,    \* tokenLimit of the running token-based loop
    i,             \* loop index of the size-based loops (0-based, as in the code)
    ri,            \* position of the for-of loop over rows (1-based)
    chunks,        \* const chunks = []
    currentChunk,  \* let currentChunk = []
    tokenCount,    \* let tokenCount = 0
    tokenCache,    \* this.tokenCache, a Map in insertion order
    \* ---- AuditService ----
    dmode,         \* the running operation: single, chunks, pages
    retries,       \* the retries argument of _callOpenAIWithRetry
    pageData,      \* the pages given to analyzeIndividualPages
    batches,       \* the chunks / page batches to dispatch
    call,          \* per batch: its _callOpenAIWithRetry call and its promise
    dpc,           \* position of the dispatcher: idle, awaitAll, backpressure, done
    di,            \* loop index i of the dispatcher (0-based)
    results,       \* results / the batchResults pushed so far, in push order
    \* ---- the parser, the scorers and the aggregators (pure functions) ----
    fpc,           \* idle, called, done
    fin,           \* the arguments of the function call
    fout,          \* what the call returned
    \* ---- the run of the workflow (run-workflow.js, AuditController) ----
    wpc,           \* position of the run ("none": no run is modelled)
    hasKey,        \* process.env.OPENAI_API_KEY is set
    csvData,       \* the rows of the crawl export
    siteAnalysis,  \* what analyzeCSVData has built so far
    url,           \* the URL of the request: valid, invalid
    currentStep,   \* let currentStep of executeWorkflow
    crawlResult,   \* let crawlResult of executeWorkflow
    \* ---- the crawler, the export directory, the report directories ----
    runs,          \* the concurrent runs of executeWorkflow
    exportDir,     \* exports/<slug> per slug: exists, whose export it holds
    crawl,         \* the running CrawlerService.execute call
    clock,         \* the wall clock, in ticks
    report         \* the session directories the report writers used

chunkVars == <<rows, op, args, cpc, mode, chunkSize, tokenLimit, i, ri, chunks,
               currentChunk, tokenCount, tokenCache>>

auditVars == <<dmode, retries, pageData, batches, call, dpc, di, results>>

fnVars == <<fpc, fin, fout>>

workVars == <<wpc, hasKey, csvData, siteAnalysis, url, currentStep, crawlResult>>

sideVars == <<runs, exportDir, crawl, clock, report>>

vars == <<chunkVars, auditVars, fnVars, workVars, sideVars>>

(***************************************************************************)
(* Bounds of the model                                                     *)
(***************************************************************************)
MaxRows == 3          \* small inputs: every row sequence up to this length
MaxTokenLimit == 3    \* small inputs: tokenLimit in 0..MaxTokenLimit
MaxChunkSize == 3     \* small inputs: chunk sizes in 0..MaxChunkSize
MaxTargetChunks == 2  \* small inputs: targetChunks in 1..MaxTargetChunks
MaxMemoryChunks == 2  \* small inputs: maxMemoryChunks in 1..MaxMemoryChunks
SpinCap == 2          \* a loop that makes no progress is followed this far

(***************************************************************************)
(* Program constants                                                       *)
(***************************************************************************)
CharsPerToken == 4          \* Math.ceil(text.length / 4)
CacheLimit == 2000          \* if (this.tokenCache.size > 2000)
CacheEvict == 500           \* .slice(0, 500)
DefaultChunkSize == 25      \* chunkBySize(rows, chunkSize = 25)
DefaultTokenLimit == 4000   \* tokenLimit = 4000
SmartSizeThreshold == 500   \* smartChunk: rows.length > 500
SmartChunkSize == 30        \* smartChunk: chunkBySize(rows, 30)
AdaptiveSpeedThreshold == 300   \* adaptiveChunk: rows.length > 300
DefaultTargetChunks == 20   \* targetChunks = 20
DefaultMaxChunkSize == 50   \* maxChunkSize = 50
DefaultMaxMemoryChunks == 100   \* maxMemoryChunks = 100

(***************************************************************************)
(* Helpers: JavaScript array and number primitives                         *)
(***************************************************************************)
Min(a, b) == IF a <= b THEN a ELSE b

Max(a, b) == IF a >= b THEN a ELSE b

\* Math.ceil(a / b) for a >= 0, b > 0
CeilDiv(a, b) == (a + b - 1) \div b

\* Array.prototype.slice(from, to) with 0 <= from <= to, 0-based, end exclusive
Slice(s, from, to) == SubSeq(s, from + 1, Min(to, Len(s)))

RECURSIVE Flatten(_)
\* concatenation, in order, of a sequence of sequences
Flatten(ss) == IF ss = <<>> THEN <<>> ELSE Head(ss) \o Flatten(Tail(ss))

RECURSIVE SumTokens(_)
SumTokens(s) == IF s = <<>> THEN 0 ELSE Head(s) + SumTokens(Tail(s))

(***************************************************************************)
(* Rows.  A row is identified by its position in the crawl export (id);    *)
(* the chunker reads of it only the string _createOptimizedRowString       *)
(* builds, of which the estimator reads the length and the first 50        *)
(* characters (pfx names that prefix).                                     *)
(***************************************************************************)
SmallTexts ==
    { [len |-> 0, pfx |-> 0], [len |-> 3, pfx |-> 1],
      [len |-> 8, pfx |-> 2], [len |-> 16, pfx |-> 1] }

MkRows(texts) == [k \in 1..Len(texts) |-> [id |-> k, text |-> texts[k]]]

SmallInputs ==
    UNION { { MkRows(t) : t \in [1..n -> SmallTexts] } : n \in 0..MaxRows }

\* rows of a large crawl: long row strings, two alternating lengths
LargeText(k) == IF k % 2 = 1 THEN [len |-> 2000, pfx |-> 1]
                            ELSE [len |-> 2400, pfx |-> 2]

LargeSizes == { AdaptiveSpeedThreshold, AdaptiveSpeedThreshold + 1,
                SmartSizeThreshold, SmartSizeThreshold + 1 }

LargeInputs == { [k \in 1..n |-> [id |-> k, text |-> LargeText(k)]] : n \in LargeSizes }

IsLarge(rs) == Len(rs) > MaxRows + 1

_createOptimizedRowString(row) == row.text

(***************************************************************************)
(* estimateTokensFast: the estimate and the cache it leaves                *)
(***************************************************************************)
\* mutant: the key leaves the length out
CacheKey_PrefixOnly(text) == <<0, text.pfx>>

\* const cacheKey = text.length + '_' + (text.substring(0, 50))
CacheKey(text) == <<text.len, text.pfx>>

CacheHas(cache, key) == \E k \in 1..Len(cache) : cache[k].key = key

CacheGet(cache, key) == cache[CHOOSE k \in 1..Len(cache) : cache[k].key = key].val

\* mutant: the new entry is put first, where the oldest entries are
estimateTokensFast_NewestFirst(text, cache) ==
    IF text.len = 0 THEN [tokens |-> 0, cache |-> cache]
    ELSE IF CacheHas(cache, CacheKey(text))
         THEN [tokens |-> CacheGet(cache, CacheKey(text)), cache |-> cache]
    ELSE LET set == <<[key |-> CacheKey(text),
                       val |-> CeilDiv(text.len, CharsPerToken)]>> \o cache
         IN  [tokens |-> CeilDiv(text.len, CharsPerToken),
              cache  |-> IF Len(set) > CacheLimit
                         THEN SubSeq(set, CacheEvict + 1, Len(set))
                         ELSE set]

estimateTokensFast(text, cache) ==
    IF text.len = 0 THEN [tokens |-> 0, cache |-> cache]
    ELSE IF CacheHas(cache, CacheKey(text))
         THEN [tokens |-> CacheGet(cache, CacheKey(text)), cache |-> cache]
    ELSE LET approximateTokens == CeilDiv(text.len, CharsPerToken)
             set == Append(cache, [key |-> CacheKey(text), val |-> approximateTokens])
         IN  [tokens |-> approximateTokens,
              cache  |-> IF Len(set) > CacheLimit
                         THEN SubSeq(set, CacheEvict + 1, Len(set))
                         ELSE set]

\* the estimate chunkByTokensFast gets for a row, whatever the cache holds
RowTokens(row) == CeilDiv(_createOptimizedRowString(row).len, CharsPerToken)

(***************************************************************************)
(* Arguments of the calls                                                  *)
(***************************************************************************)
DefaultArgs ==
    [chunkSize |-> DefaultChunkSize, tokenLimit |-> DefaultTokenLimit,
     targetChunks |-> DefaultTargetChunks, maxChunkSize |-> DefaultMaxChunkSize,
     preferSpeed |-> TRUE, maxMemoryChunks |-> DefaultMaxMemoryChunks]

\* large inputs are run with the defaults of the code, small ones with every
\* small value of the option
ChunkSizes(rs) == IF IsLarge(rs) THEN {DefaultChunkSize} ELSE 0..MaxChunkSize

TokenLimits(rs) == IF IsLarge(rs) THEN {DefaultTokenLimit} ELSE 0..MaxTokenLimit

\* adaptiveChunk reads targetChunks and maxChunkSize only when it prefers speed
\* and has more than 300 rows: they vary in those calls only
ReadsSizeOptions(rs, ps) == ps /\ Len(rs) > AdaptiveSpeedThreshold

TargetChunkss(rs, ps) ==
    {DefaultTargetChunks} \cup (IF ReadsSizeOptions(rs, ps) THEN 1..MaxTargetChunks ELSE {})

MaxChunkSizes(rs, ps) ==
    {DefaultMaxChunkSize} \cup (IF ReadsSizeOptions(rs, ps) THEN 0..MaxChunkSize ELSE {})

MemoryChunkss(rs) == IF IsLarge(rs) THEN {DefaultMaxMemoryChunks} ELSE 1..MaxMemoryChunks

(***************************************************************************)
(* Strategy choices                                                        *)
(***************************************************************************)
\* smartChunk: which chunker runs, and with which limit
smartChunkStrategy(rs, limit) ==
    IF Len(rs) > SmartSizeThreshold
    THEN [mode |-> "bySize", chunkSize |-> SmartChunkSize, tokenLimit |-> limit]
    ELSE [mode |-> "byTokens", chunkSize |-> 0, tokenLimit |-> limit]

\* adaptiveChunk
adaptiveChunkStrategy(rs, a) ==
    IF a.preferSpeed /\ Len(rs) > AdaptiveSpeedThreshold
    THEN [mode |-> "bySize",
          chunkSize |-> Min(CeilDiv(Len(rs), a.targetChunks), a.maxChunkSize),
          tokenLimit |-> a.tokenLimit]
    ELSE [mode |-> "byTokens", chunkSize |-> 0, tokenLimit |-> a.tokenLimit]

\* efficientChunkForLargeData: const chunkSize = Math.ceil(rows.length / maxMemoryChunks)
efficientChunkSize(rs, maxMemoryChunks) == CeilDiv(Len(rs), maxMemoryChunks)

(***************************************************************************)
(* The loops                                                               *)
(***************************************************************************)
\* mutant: the slice ends one row late, so it overlaps the next chunk
SizeChunkAt_Overlap(rs, at, size) == Slice(rs, at, at + size + 1)

\* mutant: the slice ends one row early
SizeChunkAt_Short(rs, at, size) == Slice(rs, at, at + size - 1)

\* chunks.push(rows.slice(i, i + chunkSize))
SizeChunkAt(rs, at, size) == Slice(rs, at, at + size)

\* mutant: the test for a non-empty current chunk is missing
ShouldClose_AlsoEmpty(count, rowTokens, limit, current) ==
    count + rowTokens > limit

\* mutant: >= for >, a chunk is closed when the next row would fill it exactly
ShouldClose_AtLimit(count, rowTokens, limit, current) ==
    count + rowTokens >= limit /\ Len(current) > 0

\* if (tokenCount + rowTokens > tokenLimit && currentChunk.length > 0)
ShouldClose(count, rowTokens, limit, current) ==
    count + rowTokens > limit /\ Len(current) > 0

Begin(o, a, m, size, limit) ==
    /\ cpc = "idle"
    /\ op' = o
    /\ args' = a
    /\ cpc' = "loop"
    /\ mode' = m
    /\ chunkSize' = size
    /\ tokenLimit' = limit
    /\ i' = 0
    /\ ri' = 1
    /\ chunks' = <<>>
    /\ currentChunk' = <<>>
    /\ tokenCount' = 0
    /\ UNCHANGED <<rows, tokenCache, auditVars, fnVars, workVars, sideVars>>

chunkBySize_Call ==
    \E n \in ChunkSizes(rows) :
        Begin("chunkBySize", [DefaultArgs EXCEPT !.chunkSize = n], "bySize", n, 0)

chunkByTokensFast_Call ==
    \E t \in TokenLimits(rows) :
        Begin("chunkByTokensFast", [DefaultArgs EXCEPT !.tokenLimit = t], "byTokens", 0, t)

smartChunk_Call ==
    \E t \in TokenLimits(rows) :
        LET s == smartChunkStrategy(rows, t)
        IN  Begin("smartChunk", [DefaultArgs EXCEPT !.tokenLimit = t],
                  s.mode, s.chunkSize, s.tokenLimit)

adaptiveChunk_Call ==
    \E t \in TokenLimits(rows), ps \in BOOLEAN :
      \E tc \in TargetChunkss(rows, ps), mc \in MaxChunkSizes(rows, ps) :
        LET a == [DefaultArgs EXCEPT !.tokenLimit = t, !.targetChunks = tc,
                                     !.maxChunkSize = mc, !.preferSpeed = ps]
            s == adaptiveChunkStrategy(rows, a)
        IN  Begin("adaptiveChunk", a, s.mode, s.chunkSize, s.tokenLimit)

efficientChunkForLargeData_Call ==
    \E m \in MemoryChunkss(rows) :
        Begin("efficientChunkForLargeData", [DefaultArgs EXCEPT !.maxMemoryChunks = m],
              "efficient", efficientChunkSize(rows, m), 0)

\* for (let i = 0; i < rows.length; i += chunkSize) chunks.push(rows.slice(...))
chunkBySize_Loop ==
    /\ cpc = "loop" /\ mode = "bySize"
    /\ i < Len(rows)
    /\ chunkSize > 0 \/ Len(chunks) < SpinCap
    /\ chunks' = Append(chunks, SizeChunkAt(rows, i, chunkSize))
    /\ i' = i + chunkSize
    /\ UNCHANGED <<rows, op, args, cpc, mode, chunkSize, tokenLimit, ri, currentChunk,
                   tokenCount, tokenCache, auditVars, fnVars, workVars, sideVars>>

chunkBySize_Return ==
    /\ cpc = "loop" /\ mode = "bySize"
    /\ i >= Len(rows)
    /\ cpc' = "done"
    /\ UNCHANGED <<rows, op, args, mode, chunkSize, tokenLimit, i, ri, chunks,
                   currentChunk, tokenCount, tokenCache, auditVars, fnVars, workVars, sideVars>>

efficientChunk_Loop ==
    /\ cpc = "loop" /\ mode = "efficient"
    /\ i < Len(rows)
    /\ chunkSize > 0 \/ Len(chunks) < SpinCap
    /\ chunks' = Append(chunks, SizeChunkAt(rows, i, chunkSize))
    /\ i' = i + chunkSize
    /\ UNCHANGED <<rows, op, args, cpc, mode, chunkSize, tokenLimit, ri, currentChunk,
                   tokenCount, tokenCache, auditVars, fnVars, workVars, sideVars>>

efficientChunk_Return ==
    /\ cpc = "loop" /\ mode = "efficient"
    /\ i >= Len(rows)
    /\ cpc' = "done"
    /\ UNCHANGED <<rows, op, args, mode, chunkSize, tokenLimit, i, ri, chunks,
                   currentChunk, tokenCount, tokenCache, auditVars, fnVars, workVars, sideVars>>

\* analyzeIndividualPages: let batchSize = 8; > 200 pages: 12; < 50 pages: 5
pageBatchSize(n) == IF n > 200 THEN 12 ELSE IF n < 50 THEN 5 ELSE 8

PageBatchSizes(rs) == {pageBatchSize(Len(rs))} \cup (IF IsLarge(rs) THEN {} ELSE 0..MaxChunkSize)

_createPageBatches_Call ==
    \E n \in PageBatchSizes(rows) :
        Begin("_createPageBatches", [DefaultArgs EXCEPT !.chunkSize = n], "pageBatches", n, 0)

\* for (let i = 0; i < pageData.length; i += batchSize) batches.push(pageData.slice(...))
_createPageBatches_Loop ==
    /\ cpc = "loop" /\ mode = "pageBatches"
    /\ i < Len(rows)
    /\ chunkSize > 0 \/ Len(chunks) < SpinCap
    /\ chunks' = Append(chunks, SizeChunkAt(rows, i, chunkSize))
    /\ i' = i + chunkSize
    /\ UNCHANGED <<rows, op, args, cpc, mode, chunkSize, tokenLimit, ri, currentChunk,
                   tokenCount, tokenCache, auditVars, fnVars, workVars, sideVars>>

_createPageBatches_Return ==
    /\ cpc = "loop" /\ mode = "pageBatches"
    /\ i >= Len(rows)
    /\ cpc' = "done"
    /\ UNCHANGED <<rows, op, args, mode, chunkSize, tokenLimit, i, ri, chunks,
                   currentChunk, tokenCount, tokenCache, auditVars, fnVars, workVars, sideVars>>

\* for (const row of rows) { ... }
chunkByTokensFast_Loop ==
    /\ cpc = "loop" /\ mode = "byTokens"
    /\ ri <= Len(rows)
    /\ LET row == rows[ri]
           est == estimateTokensFast(_createOptimizedRowString(row), tokenCache)
           close == ShouldClose(tokenCount, est.tokens, tokenLimit, currentChunk)
       IN  /\ chunks' = IF close THEN Append(chunks, currentChunk) ELSE chunks
           /\ currentChunk' = Append(IF close THEN <<>> ELSE currentChunk, row)
           /\ tokenCount' = (IF close THEN 0 ELSE tokenCount) + est.tokens
           /\ tokenCache' = est.cache
    /\ ri' = ri + 1
    /\ UNCHANGED <<rows, op, args, cpc, mode, chunkSize, tokenLimit, i, auditVars, fnVars, workVars, sideVars>>

\* if (currentChunk.length > 0) chunks.push(currentChunk); return chunks
chunkByTokensFast_Return ==
    /\ cpc = "loop" /\ mode = "byTokens"
    /\ ri > Len(rows)
    /\ chunks' = IF Len(currentChunk) > 0 THEN Append(chunks, currentChunk) ELSE chunks
    /\ cpc' = "done"
    /\ UNCHANGED <<rows, op, args, mode, chunkSize, tokenLimit, i, ri, currentChunk,
                   tokenCount, tokenCache, auditVars, fnVars, workVars, sideVars>>

\* the caller takes the result; the service is ready for the next call
Chunk_Reset ==
    /\ cpc = "done"
    /\ cpc' = "idle"
    /\ mode' = "none"
    /\ op' = "none"
    /\ args' = DefaultArgs
    /\ chunkSize' = 0
    /\ tokenLimit' = 0
    /\ i' = 0
    /\ ri' = 1
    /\ chunks' = <<>>
    /\ currentChunk' = <<>>
    /\ tokenCount' = 0
    /\ UNCHANGED <<rows, tokenCache, auditVars, fnVars, workVars, sideVars>>

\* clearCache()
clearCache ==
    /\ cpc = "idle"
    /\ tokenCache # <<>>
    /\ tokenCache' = <<>>
    /\ UNCHANGED <<rows, op, args, cpc, mode, chunkSize, tokenLimit, i, ri, chunks,
                   currentChunk, tokenCount, auditVars, fnVars, workVars, sideVars>>

\* the chunk service before any call
ChunkIdle ==
    /\ op = "none"
    /\ args = DefaultArgs
    /\ cpc = "idle"
    /\ mode = "none"
    /\ chunkSize = 0
    /\ tokenLimit = 0
    /\ i = 0
    /\ ri = 1
    /\ chunks = <<>>
    /\ currentChunk = <<>>
    /\ tokenCount = 0
    /\ tokenCache = <<>>

\* the audit service before any call
AuditIdle ==
    /\ dmode = "none"
    /\ retries = 0
    /\ pageData = <<>>
    /\ batches = <<>>
    /\ call = <<>>
    /\ dpc = "idle"
    /\ di = 0
    /\ results = <<>>

\* no run of the workflow is modelled: the key is set, nothing is loaded
NoSiteAnalysis == [chunkResults |-> <<>>, request |-> <<>>, finalAnalysis |-> "none"]

\* the URLs of concurrent requests and the slugs generateSlug gives them:
\* the protocol is stripped, so two of them share a slug
ConcurrentUrls == {"http://a.com", "https://a.com", "http://b.com"}

generateSlug(u) == IF u = "http://b.com" THEN "b_com" ELSE "a_com"

Slugs == {generateSlug(u) : u \in ConcurrentUrls}

\* exports/<slug>: whether it exists and which run's crawl wrote its CSV
NoDir == [exists |-> FALSE, csv |-> 0]

NoDirs == [s \in Slugs |-> NoDir]

\* CrawlerService.execute: the retries argument, the loop counter, the
\* number of times the command was run, the failures logged, the delays
\* waited and the number of attempts the thrown error names (0: none)
NoCrawl == [st |-> "none", retries |-> 0, attempt |-> 0, nRuns |-> 0,
            errors |-> <<>>, waits |-> <<>>, thrown |-> 0]

NoReport == [pc |-> "none", comprehensive |-> -1, summary |-> -1]

\* no crawl runs, no export and no report directory exists
RunsIdle == runs = <<>> /\ exportDir = NoDirs

CrawlIdle == crawl = NoCrawl

ReportIdle == clock = 0 /\ report = NoReport

SideIdle == RunsIdle /\ CrawlIdle /\ ReportIdle

\* no workflow is running
FlowIdle ==
    /\ wpc = "none"
    /\ hasKey = TRUE
    /\ csvData = <<>>
    /\ siteAnalysis = NoSiteAnalysis
    /\ url = "valid"
    /\ currentStep = "initialization"
    /\ crawlResult = "none"

WorkIdle == FlowIdle /\ SideIdle

\* no parser, scorer or aggregator call is running
FnIdle ==
    /\ fpc = "idle"
    /\ fin = <<>>
    /\ fout = <<>>

InitChunk ==
    /\ rows \in SmallInputs \cup LargeInputs
    /\ ChunkIdle
    /\ AuditIdle
    /\ WorkIdle
    /\ FnIdle

NextChunk ==
    \/ chunkBySize_Call
    \/ chunkByTokensFast_Call
    \/ smartChunk_Call
    \/ adaptiveChunk_Call
    \/ efficientChunkForLargeData_Call
    \/ _createPageBatches_Call
    \/ chunkBySize_Loop
    \/ chunkBySize_Return
    \/ efficientChunk_Loop
    \/ efficientChunk_Return
    \/ _createPageBatches_Loop
    \/ _createPageBatches_Return
    \/ chunkByTokensFast_Loop
    \/ chunkByTokensFast_Return
    \/ Chunk_Reset
    \/ clearCache

SpecChunk == InitChunk /\ [][NextChunk]_vars


(***************************************************************************)
(* AuditService: pages and the rule-based analyses                         *)
(***************************************************************************)
MaxRetries == 4       \* SpecRetry: retries in 0..MaxRetries
MaxChunks == 5        \* SpecDispatch: 0..MaxChunks chunks
MaxPages == 16        \* SpecPages: 0..MaxPages pages

concurrencyLimit == 3     \* _processChunksOptimized: const concurrencyLimit = 3
concurrentBatches == 2    \* analyzeIndividualPages: const concurrentBatches = 2
DispatchRetries == 2      \* this._callOpenAIWithRetry(messages, 2)
RetryDelayUnit == 1000    \* await this._delay(1000 * attempt)
BasicSliceLimit == 50     \* pageData.slice(0, 50)
UnknownUrl == 0           \* 'Unknown': the url of no page
LargeSiteThreshold == 1000    \* if (pageData.length > 1000)

\* a || b on strings
OrElse(a, b) == IF a = "" THEN b ELSE a

\* the crawl rows of the modelled site: four kinds of page, in rotation.
\* Address is the page's number; "Word Count" is held as parseInt reads it.
PageOf(k) ==
    CASE k % 4 = 1 -> [Address |-> k, Title |-> "T", Meta |-> "M", H1 |-> "H",
                       WordCount |-> 400, StatusCode |-> "200"]
      [] k % 4 = 2 -> [Address |-> k, Title |-> "", Meta |-> "", H1 |-> "",
                       WordCount |-> 0, StatusCode |-> "404"]
      [] k % 4 = 3 -> [Address |-> k, Title |-> "T", Meta |-> "", H1 |-> "H",
                       WordCount |-> 250, StatusCode |-> "200"]
      [] OTHER     -> [Address |-> k, Title |-> "", Meta |-> "M", H1 |-> "",
                       WordCount |-> 400, StatusCode |-> "200"]

Pages(n) == [k \in 1..n |-> PageOf(k)]

\* originalBatch[index] past the end of the batch: undefined
NoPage == [Address |-> UnknownUrl, Title |-> "", Meta |-> "", H1 |-> "",
           WordCount |-> 0, StatusCode |-> ""]

\* the issues list of _generateBasicPageAnalysis, in the order of the pushes
BasicIssues(title, metaDescription, page) ==
    (IF title = "" THEN <<"Missing page title">> ELSE <<>>)
    \o (IF metaDescription = "" THEN <<"Missing meta description">> ELSE <<>>)
    \o (IF page.H1 = "" THEN <<"Missing H1 tag">> ELSE <<>>)
    \o (IF page.WordCount < 300 THEN <<"Thin content">> ELSE <<>>)

\* the body of the map callback of _generateBasicPageAnalysis
BasicAnalysisOf(page) ==
    LET title == OrElse(page.Title, "No title")
        metaDescription == OrElse(page.Meta, "Missing")
        score == 50 + (IF title # "" THEN 15 ELSE 0)
                    + (IF metaDescription # "" THEN 15 ELSE 0)
                    + (IF page.H1 # "" THEN 10 ELSE 0)
                    + (IF page.StatusCode = "200" THEN 10 ELSE 0)
                    + (IF page.WordCount > 300 THEN 10 ELSE 0)
        issues == BasicIssues(title, metaDescription, page)
    IN  [url |-> page.Address,
         seoScore |-> Min(100, score),
         issues |-> Slice(issues, 0, 3),
         priority |-> IF score < 60 THEN "High" ELSE IF score < 80 THEN "Medium" ELSE "Low",
         estimatedImpact |-> IF score < 60 THEN "High" ELSE "Medium"]

\* mutant: every page gets a basic analysis
_generateBasicPageAnalysis_NoSlice(pd) ==
    [k \in 1..Len(pd) |-> BasicAnalysisOf(pd[k])]

_generateBasicPageAnalysis(pd) ==
    LET first == Slice(pd, 0, BasicSliceLimit)
    IN  [k \in 1..Len(first) |-> BasicAnalysisOf(first[k])]

\* mutant: the H1 is not scored
_calculateBasicScore_NoH1(page) ==
    Min(100, 50 + (IF page.Title # "" THEN 15 ELSE 0)
                + (IF page.Meta # "" THEN 15 ELSE 0)
                + (IF page.WordCount > 300 THEN 10 ELSE 0)
                + (IF page.StatusCode = "200" THEN 10 ELSE 0))

_calculateBasicScore(page) ==
    Min(100, 50 + (IF page.Title # "" THEN 15 ELSE 0)
                + (IF page.Meta # "" THEN 15 ELSE 0)
                + (IF page.H1 # "" THEN 10 ELSE 0)
                + (IF page.WordCount > 300 THEN 10 ELSE 0)
                + (IF page.StatusCode = "200" THEN 10 ELSE 0))

_calculateEstimatedImpact(score, priority) ==
    IF score = 0 THEN "Unknown"
    ELSE IF score < 50 /\ priority = "High" THEN "Very High"
    ELSE IF score < 60 /\ priority = "High" THEN "High"
    ELSE IF score < 70 /\ priority = "Medium" THEN "Medium"
    ELSE "Low"

(***************************************************************************)
(* The model's replies.  A reply is the sequence of its '---' sections     *)
(* (response.split('---') without the blank ones); a section holds what    *)
(* the patterns of _extractPageData find in its text:                      *)
(*   url        the text after 'URL:' (UnknownUrl: no URL line)            *)
(*   score      the digits after 'SEO SCORE:' (-1: the pattern fails)      *)
(*   hasIssues  whether 'CRITICAL ISSUES:' occurs                          *)
(*   issueLines the lines from that label to the next label, the first     *)
(*              being the rest of the label's own line; a line is its      *)
(*              text with or without a leading '- '                        *)
(*   priority   the word after 'PRIORITY:' as written ("": no such line)   *)
(***************************************************************************)
IssueLimit == 3           \* .slice(0, 3) of the issues
ForeignUrl == 99          \* a URL of no page of the batch

Bullet(t) == [dash |-> TRUE, text |-> t]
Plain(t) == [dash |-> FALSE, text |-> t]

\* the fixture: URL, SEO SCORE: 72, one critical issue, PRIORITY: High
WellFormed ==
    [url |-> ForeignUrl, score |-> 72, hasIssues |-> TRUE,
     issueLines |-> <<Plain(""), Bullet("Missing meta description")>>,
     priority |-> "High"]

\* the sections the replies are made of
SectionKinds ==
    { WellFormed,
      [WellFormed EXCEPT !.score = -1, !.priority = "Medium"],
      [WellFormed EXCEPT !.score = 150, !.priority = "Low"],
      [WellFormed EXCEPT !.issueLines =
          <<Plain(""), Bullet("Missing title"), Bullet("Missing H1 tag"),
            Bullet("Thin content"), Bullet("Missing meta description")>>],
      [WellFormed EXCEPT !.priority = "high"],
      [WellFormed EXCEPT !.score = -1, !.hasIssues = FALSE,
                         !.issueLines = <<>>, !.priority = ""] }

SectionFor(page) == [WellFormed EXCEPT !.url = page.Address]

\* replies to a page batch: one section per page; the last page left out;
\* one section per page, without scores
Replies(batch) ==
    { [k \in 1..Len(batch) |-> SectionFor(batch[k])],
      [k \in 1..(Len(batch) - 1) |-> SectionFor(batch[k])],
      [k \in 1..Len(batch) |-> [SectionFor(batch[k]) EXCEPT !.score = -1, !.priority = ""]] }

\* /PRIORITY:\s*(High|Medium|Low)/i: the spellings the pattern accepts
PrioritySpellings ==
    {"High", "Medium", "Low", "high", "medium", "low", "HIGH", "MEDIUM", "LOW"}

\* mutant: the lines are kept as written, blank ones included
CleanLines_KeepBlank(lines) == [k \in 1..Len(lines) |-> lines[k].text]

\* .map(line => line.replace(/^-\s*/, '').trim()).filter(line => line.length > 0)
CleanLines(lines) ==
    LET RECURSIVE Keep(_)
        Keep(k) == IF k > Len(lines) THEN <<>>
                   ELSE IF lines[k].text = "" THEN Keep(k + 1)
                   ELSE <<lines[k].text>> \o Keep(k + 1)
    IN  Keep(1)

\* parseInt(scoreMatch[1])
ParsedScore(n) == n

_extractPageData(section, originalPage) ==
    LET seoScore == IF section.score >= 0 THEN ParsedScore(section.score)
                    ELSE _calculateBasicScore(originalPage)
        issues == IF section.hasIssues
                  THEN Slice(CleanLines(section.issueLines), 0, IssueLimit)
                  ELSE <<>>
        priority == IF section.priority \in PrioritySpellings THEN section.priority
                    ELSE "Medium"
    IN  [url |-> IF section.url # UnknownUrl THEN section.url ELSE originalPage.Address,
         seoScore |-> seoScore,
         issues |-> issues,
         priority |-> priority,
         estimatedImpact |-> _calculateEstimatedImpact(seoScore, priority)]

\* pageAnalyses.forEach((analysis, index) => results.push(
\*     _extractPageData(analysis, originalBatch[index]))): one record per
\* section (data.url is never empty here, so each one is pushed)
_parsePageAnalysisResponse(response, originalBatch) ==
    [k \in 1..Len(response) |->
        _extractPageData(response[k],
            IF k <= Len(originalBatch) THEN originalBatch[k] ELSE NoPage)]

(***************************************************************************)
(* _callOpenAIWithRetry and the promise of the batch that awaits it        *)
(***************************************************************************)
NoValue == [batch |-> 0, kind |-> "pending", analyses |-> <<>>]

NewCall == [st |-> "none", attempt |-> 0, nCalls |-> 0, delays |-> <<>>,
            lastError |-> "none", thrown |-> "none",
            promise |-> "none", value |-> NoValue]

\* RateLimited | NetworkError | MalformedResponse; no dispatcher reads the
\* error it catches, so the dispatcher runs draw one kind
ErrorKinds ==
    IF dmode = "single" THEN {"RateLimited", "NetworkError", "MalformedResponse"}
    ELSE {"NetworkError"}

\* mutant: the page batches are dispatched three at a time, as the chunks
Limit_AsChunks == concurrencyLimit

Limit == IF dmode = "pages" THEN concurrentBatches ELSE concurrencyLimit

\* mutant: the last attempt is not recognised, the loop runs on
ShouldRethrow_Late(attempt, r) == attempt > r

\* if (attempt === retries) throw error
ShouldRethrow(attempt, r) == attempt = r

\* mutant: exponential backoff, doubling
RetryDelay_Doubling(attempt) == RetryDelayUnit * 2 ^ (attempt - 1)

\* await this._delay(1000 * attempt)
RetryDelay(attempt) == RetryDelayUnit * attempt

\* mutant: _analyzePageBatchOptimized without its catch
CatchesBatchFailure_Never(m) == FALSE

\* _analyzePageBatchOptimized wraps the call in try/catch and returns the
\* basic analysis; _analyzeChunk lets the error through
CatchesBatchFailure(m) == m = "pages"

\* what the call returns when the loop ends without a call: undefined
ReturnUndefined(cr, c) ==
    [cr EXCEPT !.st = "returned", !.promise = "resolved",
               !.value = [batch |-> c, kind |-> "undefined", analyses |-> <<>>]]

\* for (let attempt = 1; attempt <= retries; ...) await create(...)
StartCall(cr, c, r) ==
    IF 1 <= r
    THEN [cr EXCEPT !.st = "inflight", !.attempt = 1, !.nCalls = 1, !.promise = "pending"]
    ELSE ReturnUndefined(cr, c)

\* the replies the API may give to the call of batch c: message content, or
\* none (choices[0]?.message?.content is undefined)
RepliesOf(c) ==
    IF dmode = "pages"
    THEN { [content |-> "text", sections |-> r] : r \in Replies(batches[c]) }
         \cup { [content |-> "undefined", sections |-> <<>>] }
    ELSE {"text", "undefined"}

\* if (!text) return ''; otherwise the text, whose sections stay as they are
_cleanAnalysisText(reply) ==
    IF reply.content = "undefined" THEN <<>> ELSE reply.sections

\* what the batch promise resolves to on a reply: the trimmed content
\* (single), _cleanAnalysisText of it (chunks, final), the parsed analyses
\* (pages)
BatchValue(c, reply) ==
    CASE dmode = "single" -> [batch |-> c, kind |-> reply, analyses |-> <<>>]
      [] dmode \in {"chunks", "final"} ->
            [batch |-> c, kind |-> IF reply = "undefined" THEN "empty" ELSE "text",
             analyses |-> <<>>]
      [] OTHER ->
            [batch |-> c,
             kind |-> IF reply.content = "undefined" THEN "noContent" ELSE "parsed",
             analyses |-> _parsePageAnalysisResponse(_cleanAnalysisText(reply),
                                                     batches[c])]

\* the batch promise after the last attempt failed with error e
FailedFor(cr, c, e) ==
    LET threw == [cr EXCEPT !.st = "threw", !.lastError = e, !.thrown = e]
    IN  IF CatchesBatchFailure(dmode)
        THEN [threw EXCEPT !.promise = "resolved",
                           !.value = [batch |-> c, kind |-> "fallback",
                                      analyses |-> _generateBasicPageAnalysis(batches[c])]]
        ELSE [threw EXCEPT !.promise = "rejected"]

(***************************************************************************)
(* The dispatch loop of _processChunksOptimized and analyzeIndividualPages *)
(***************************************************************************)
\* the batch numbers of chunks.slice(i, i + concurrencyLimit)
Window(bs, from) == { c \in 1..Len(bs) : from < c /\ c <= from + Limit }

WindowOf(c) == (c - 1) \div Limit

\* the values of Promise.all, in the order of the promises
WindowValues(cl, from) ==
    [k \in 1..Cardinality(Window(batches, from)) |-> cl[from + k].value]

\* what the loop pushes after Promise.all: results.push(...batchResults) of
\* the chunk outcomes, allPageAnalyses.push(...result) of each batch's analyses
Pushed(cl, from) ==
    IF dmode = "pages"
    THEN Flatten([k \in 1..Cardinality(Window(batches, from)) |->
                     cl[from + k].value.analyses])
    ELSE WindowValues(cl, from)

\* the loop head at index from: issue the calls of the window, or return
EnterLoop(bs, from, res, cl) ==
    /\ di' = from
    /\ results' = res
    /\ IF from < Len(bs)
       THEN /\ dpc' = "awaitAll"
            /\ call' = [c \in 1..Len(bs) |->
                           IF c \in Window(bs, from) THEN StartCall(cl[c], c, retries)
                           ELSE cl[c]]
       ELSE /\ dpc' = "done"
            /\ call' = cl

\* what runs once the promise of batch c has settled (cl: the calls after it)
React(c, cl) ==
    IF dpc = "awaitCall"
    THEN dpc' = "done" /\ call' = cl /\ UNCHANGED <<di, results>>
    ELSE IF dpc = "awaitAll" /\ c \in Window(batches, di)
    THEN IF cl[c].promise = "rejected"
         THEN \* catch (error) { ...; continue; }
              EnterLoop(batches, di + Limit, results, cl)
         ELSE IF \A d \in Window(batches, di) : cl[d].promise = "resolved"
         THEN \* results.push(...batchResults)
              IF di + Limit < Len(batches)
              THEN /\ dpc' = "backpressure"
                   /\ results' = results \o Pushed(cl, di)
                   /\ call' = cl
                   /\ UNCHANGED di
              ELSE EnterLoop(batches, di + Limit, results \o Pushed(cl, di), cl)
         ELSE call' = cl /\ UNCHANGED <<dpc, di, results>>
    ELSE call' = cl /\ UNCHANGED <<dpc, di, results>>

_callOpenAIWithRetry_Call ==
    /\ dmode = "single"
    /\ dpc = "idle"
    /\ call' = <<StartCall(NewCall, 1, retries)>>
    /\ dpc' = IF 1 <= retries THEN "awaitCall" ELSE "done"
    /\ UNCHANGED <<dmode, retries, pageData, batches, di, results, chunkVars, fnVars, workVars, sideVars>>

_processChunksOptimized_Call ==
    /\ dmode = "chunks"
    /\ dpc = "idle"
    /\ EnterLoop(batches, 0, <<>>, [c \in 1..Len(batches) |-> NewCall])
    /\ UNCHANGED <<dmode, retries, pageData, batches, chunkVars, fnVars, workVars, sideVars>>

\* const batches = this._createPageBatches(pageData, batchSize)
PageBatches(pd, n) == [k \in 1..CeilDiv(Len(pd), n) |-> SizeChunkAt(pd, (k - 1) * n, n)]

analyzeIndividualPages_Call ==
    /\ dmode = "pages"
    /\ dpc = "idle"
    /\ IF Len(pageData) > LargeSiteThreshold
       THEN \* return this._generateBasicPageAnalysis(pageData, slug)
            /\ results' = _generateBasicPageAnalysis(pageData)
            /\ dpc' = "done"
            /\ UNCHANGED <<batches, call, di>>
       ELSE LET bs == PageBatches(pageData, pageBatchSize(Len(pageData)))
            IN  /\ batches' = bs
                /\ EnterLoop(bs, 0, <<>>, [c \in 1..Len(bs) |-> NewCall])
    /\ UNCHANGED <<dmode, retries, pageData, chunkVars, fnVars, workVars, sideVars>>

\* create() resolves
ApiSuccess ==
    \E c \in DOMAIN call :
        /\ call[c].st = "inflight"
        /\ \E reply \in RepliesOf(c) :
              React(c, [call EXCEPT ![c] = [@ EXCEPT !.st = "returned",
                                                     !.promise = "resolved",
                                                     !.value = BatchValue(c, reply)]])
        /\ UNCHANGED <<dmode, retries, pageData, batches, chunkVars, fnVars, workVars, sideVars>>

\* create() rejects before the last attempt: the retry delay is awaited
ApiFailRetry ==
    \E c \in DOMAIN call :
        /\ call[c].st = "inflight"
        /\ ~ShouldRethrow(call[c].attempt, retries)
        /\ \E e \in ErrorKinds :
              call' = [call EXCEPT ![c] =
                          [@ EXCEPT !.st = "delay", !.lastError = e,
                                    !.delays = Append(@, RetryDelay(call[c].attempt))]]
        /\ UNCHANGED <<dmode, retries, pageData, batches, dpc, di, results, chunkVars, fnVars, workVars, sideVars>>

\* create() rejects on the last attempt: throw error
ApiFailFinal ==
    \E c \in DOMAIN call :
        /\ call[c].st = "inflight"
        /\ ShouldRethrow(call[c].attempt, retries)
        /\ \E e \in ErrorKinds :
              React(c, [call EXCEPT ![c] = FailedFor(@, c, e)])
        /\ UNCHANGED <<dmode, retries, pageData, batches, chunkVars, fnVars, workVars, sideVars>>

\* the retry delay is over: attempt++, and the next create() if attempt <= retries
RetryDelayElapsed ==
    \E c \in DOMAIN call :
        /\ call[c].st = "delay"
        /\ IF call[c].attempt + 1 <= retries
           THEN /\ call' = [call EXCEPT ![c] =
                               [@ EXCEPT !.st = "inflight", !.attempt = @ + 1,
                                         !.nCalls = @ + 1]]
                /\ UNCHANGED <<dpc, di, results>>
           ELSE React(c, [call EXCEPT ![c] =
                             ReturnUndefined([@ EXCEPT !.attempt = @ + 1], c)])
        /\ UNCHANGED <<dmode, retries, pageData, batches, chunkVars, fnVars, workVars, sideVars>>

\* await this._delay(1500) between two windows is over
BackpressureElapsed ==
    /\ dpc = "backpressure"
    /\ EnterLoop(batches, di + Limit, results, call)
    /\ UNCHANGED <<dmode, retries, pageData, batches, chunkVars, fnVars, workVars, sideVars>>

InitRetry ==
    /\ rows = <<>>
    /\ ChunkIdle
    /\ FnIdle
    /\ WorkIdle
    /\ dmode = "single"
    /\ retries \in 0..MaxRetries
    /\ pageData = <<>>
    /\ batches = << <<>> >>
    /\ call = <<NewCall>>
    /\ dpc = "idle"
    /\ di = 0
    /\ results = <<>>

InitDispatch ==
    /\ rows = <<>>
    /\ ChunkIdle
    /\ FnIdle
    /\ WorkIdle
    /\ dmode = "chunks"
    /\ retries = DispatchRetries
    /\ pageData = <<>>
    /\ batches \in { [k \in 1..n |-> <<k>>] : n \in 0..MaxChunks }
    /\ call = [c \in 1..Len(batches) |-> NewCall]
    /\ dpc = "idle"
    /\ di = 0
    /\ results = <<>>

InitPages ==
    /\ rows = <<>>
    /\ ChunkIdle
    /\ FnIdle
    /\ WorkIdle
    /\ dmode = "pages"
    /\ retries = DispatchRetries
    /\ pageData \in { Pages(n) : n \in (0..MaxPages) \cup {LargeSiteThreshold + 1} }
    /\ batches = <<>>
    /\ call = <<>>
    /\ dpc = "idle"
    /\ di = 0
    /\ results = <<>>

NextRetry ==
    \/ _callOpenAIWithRetry_Call
    \/ ApiSuccess
    \/ ApiFailRetry
    \/ ApiFailFinal
    \/ RetryDelayElapsed

NextDispatch ==
    \/ _processChunksOptimized_Call
    \/ ApiSuccess
    \/ ApiFailRetry
    \/ ApiFailFinal
    \/ RetryDelayElapsed
    \/ BackpressureElapsed

NextPages ==
    \/ analyzeIndividualPages_Call
    \/ ApiSuccess
    \/ ApiFailRetry
    \/ ApiFailFinal
    \/ RetryDelayElapsed
    \/ BackpressureElapsed

SpecRetry == InitRetry /\ [][NextRetry]_vars

SpecDispatch == InitDispatch /\ [][NextDispatch]_vars

SpecPages == InitPages /\ [][NextPages]_vars

\* the event loop runs every timer that is due and delivers every reply
SpecPagesFair == InitPages /\ [][NextPages]_vars /\ WF_vars(NextPages)

(***************************************************************************)
(* _parsePageAnalysisResponse as a function of a batch and a reply         *)
(***************************************************************************)
MaxBatchPages == 2    \* SpecParse: batches of 0..MaxBatchPages pages
MaxSections == 3      \* SpecParse: replies of 0..MaxSections sections

\* n consecutive pages of the site, from page `from`
BatchFrom(from, n) == [k \in 1..n |-> PageOf(from + k - 1)]

ParseBatches == { BatchFrom(from, n) : from \in 1..4, n \in 0..MaxBatchPages }

SectionSeqs == UNION { [1..n -> SectionKinds] : n \in 0..MaxSections }

\* the URL lines of a reply: none; each section names the page at its
\* position; the model left the first page out, so each names the next page
UrlPatterns == {"none", "own", "shifted"}

WithUrls(secs, pattern, batch) ==
    [k \in 1..Len(secs) |->
        [secs[k] EXCEPT !.url =
            CASE pattern = "none" -> UnknownUrl
              [] pattern = "own" ->
                    IF k <= Len(batch) THEN batch[k].Address ELSE ForeignUrl
              [] OTHER ->
                    IF k + 1 <= Len(batch) THEN batch[k + 1].Address ELSE ForeignUrl]]

ParseInputs ==
    { [fn |-> "_parsePageAnalysisResponse", originalBatch |-> b,
       response |-> WithUrls(secs, pattern, b)] :
          b \in ParseBatches, secs \in SectionSeqs, pattern \in UrlPatterns }

_parsePageAnalysisResponse_Call ==
    /\ fpc = "idle"
    /\ fin.fn = "_parsePageAnalysisResponse"
    /\ fout' = _parsePageAnalysisResponse(fin.response, fin.originalBatch)
    /\ fpc' = "done"
    /\ UNCHANGED <<fin, chunkVars, auditVars, workVars, sideVars>>

InitParse ==
    /\ rows = <<>>
    /\ ChunkIdle
    /\ AuditIdle
    /\ WorkIdle
    /\ fpc = "idle"
    /\ fin \in ParseInputs
    /\ fout = <<>>

NextParse == _parsePageAnalysisResponse_Call

SpecParse == InitParse /\ [][NextParse]_vars

(***************************************************************************)
(* The aggregators of the reports: _extractKeyMetrics (reportService.js),  *)
(* _generateEnhancedStatistics, _getScoreDistribution and                  *)
(* _identifyCommonIssues (auditController.js)                              *)
(***************************************************************************)
MaxAnalyses == 3      \* SpecAggregate: lists of 0..MaxAnalyses analyses

TopIssues == 10       \* .slice(0, 10) of the sorted issue counts

\* Math.round(num / den) for num >= 0, den > 0
Round(num, den) == (2 * num + den) \div (2 * den)

\* scores.reduce((a, b) => a + b, 0)
SumOf(scores) == SumTokens(scores)

\* the elements of a list
Range(seq) == { seq[k] : k \in 1..Len(seq) }

\* seq.filter(x => x is one of elems).length
CountIn(seq, elems) == Cardinality({ k \in 1..Len(seq) : seq[k] \in elems })

\* mutant: the average is taken without the guard on an empty list (NaN)
AverageOrZero_Unguarded(scores) ==
    IF Len(scores) > 0 THEN Round(SumOf(scores), Len(scores)) ELSE -1

\* scores.length > 0 ? Math.round(sum / scores.length) : 0
AverageOrZero(scores) ==
    IF Len(scores) > 0 THEN Round(SumOf(scores), Len(scores)) ELSE 0

_extractKeyMetrics(perPageAnalysis) ==
    LET n == Len(perPageAnalysis)
        scores == [k \in 1..n |-> perPageAnalysis[k].seoScore]
        overallScore == AverageOrZero(scores)
        issueCounts == [k \in 1..n |-> Len(perPageAnalysis[k].issues)]
    IN  [overallScore |-> overallScore,
         totalPages |-> n,
         priorities |->
            [high |-> CountIn(perPageAnalysis, {a \in Range(perPageAnalysis) : a.priority = "High"}),
             medium |-> CountIn(perPageAnalysis, {a \in Range(perPageAnalysis) : a.priority = "Medium"}),
             low |-> CountIn(perPageAnalysis, {a \in Range(perPageAnalysis) : a.priority = "Low"})],
         scoreDistribution |->
            [excellent |-> CountIn(scores, {x \in Range(scores) : x >= 90}),
             good |-> CountIn(scores, {x \in Range(scores) : x >= 80 /\ x < 90}),
             fair |-> CountIn(scores, {x \in Range(scores) : x >= 70 /\ x < 80}),
             poor |-> CountIn(scores, {x \in Range(scores) : x >= 60 /\ x < 70}),
             critical |-> CountIn(scores, {x \in Range(scores) : x < 60})],
         criticalIssues |-> SumOf(issueCounts),
         highImpactPages |-> CountIn(scores, {x \in Range(scores) : x < 70}),
         rankingOpportunities |-> Round(n * 3, 10),
         technicalHealth |-> Min(100, overallScore + 10),
         contentQuality |-> Max(50, overallScore - 5),
         confidenceLevel |-> Min(95, 70 + n * 2)]

_getScoreDistribution(scores) ==
    [b90 |-> CountIn(scores, {x \in Range(scores) : x >= 90}),
     b80 |-> CountIn(scores, {x \in Range(scores) : x >= 80 /\ x < 90}),
     b70 |-> CountIn(scores, {x \in Range(scores) : x >= 70 /\ x < 80}),
     b60 |-> CountIn(scores, {x \in Range(scores) : x >= 60 /\ x < 70}),
     b50 |-> CountIn(scores, {x \in Range(scores) : x >= 50 /\ x < 60}),
     below50 |-> CountIn(scores, {x \in Range(scores) : x < 50})]

\* the seoScores part and the analysisDepth part of the statistics (baseStats
\* are computed from the crawl rows, not from the analyses)
_generateEnhancedStatistics(perPageAnalysis) ==
    LET n == Len(perPageAnalysis)
        all == [k \in 1..n |-> perPageAnalysis[k].seoScore]
        scores == SelectSeq(all, LAMBDA x : x # 0)   \* .filter(score => score)
        issueCounts == [k \in 1..n |-> Len(perPageAnalysis[k].issues)]
    IN  [average |-> AverageOrZero(scores),
         highPerforming |-> CountIn(scores, {x \in Range(scores) : x >= 80}),
         needsImprovement |-> CountIn(scores, {x \in Range(scores) : x < 60}),
         distribution |-> _getScoreDistribution(scores),
         pagesAnalyzed |-> n,
         issuesIdentified |-> SumOf(issueCounts)]

\* issue.toLowerCase().trim() on the issue texts of the model
LowerTable ==
    [t \in {"Missing meta description", "Missing title", "Missing H1 tag",
            "Thin content", "Missing page title"} |->
        CASE t = "Missing meta description" -> "missing meta description"
          [] t = "Missing title" -> "missing title"
          [] t = "Missing H1 tag" -> "missing h1 tag"
          [] t = "Thin content" -> "thin content"
          [] OTHER -> "missing page title"]

Normalized(issue) == IF issue \in DOMAIN LowerTable THEN LowerTable[issue] ELSE issue

RECURSIVE Distinct(_, _)
\* the keys of issueCount in insertion order: first occurrences
Distinct(seq, seen) ==
    IF seq = <<>> THEN <<>>
    ELSE IF Head(seq) \in seen THEN Distinct(Tail(seq), seen)
    ELSE <<Head(seq)>> \o Distinct(Tail(seq), seen \cup {Head(seq)})

\* the place of x in a list sorted by descending count: after every entry
\* whose count is not smaller (.sort is stable)
InsertByCount(sorted, x) ==
    LET pos == Cardinality({ k \in 1..Len(sorted) :
                                sorted[k].affectedPages >= x.affectedPages })
    IN  SubSeq(sorted, 1, pos) \o <<x>> \o SubSeq(sorted, pos + 1, Len(sorted))

RECURSIVE SortByCount(_)
\* .sort(([,a], [,b]) => b - a)
SortByCount(entries) ==
    IF entries = <<>> THEN <<>>
    ELSE InsertByCount(SortByCount(SubSeq(entries, 1, Len(entries) - 1)),
                       entries[Len(entries)])

_identifyCommonIssues(perPageAnalysis) ==
    LET n == Len(perPageAnalysis)
        visited == Flatten([k \in 1..n |->
                       [j \in 1..Len(perPageAnalysis[k].issues) |->
                           Normalized(perPageAnalysis[k].issues[j])]])
        keys == Distinct(visited, {})
        entries == [k \in 1..Len(keys) |->
                       [issue |-> keys[k],
                        affectedPages |-> CountIn(visited, {keys[k]})]]
        top == Slice(SortByCount(entries), 0, TopIssues)
    IN  [k \in 1..Len(top) |->
            [issue |-> top[k].issue,
             affectedPages |-> top[k].affectedPages,
             percentage |-> Round(top[k].affectedPages * 100, n)]]

\* the analyses the aggregators are given: what the fallback scorer and the
\* parser produce for the pages and sections of the model
AnalysisKinds ==
    { BasicAnalysisOf(PageOf(k)) : k \in 1..4 }
    \cup { _extractPageData([sec EXCEPT !.url = UnknownUrl], PageOf(1)) :
              sec \in SectionKinds }

\* four analyses of three issues each, twelve different issues in all
WideAnalyses ==
    [k \in 1..4 |->
        [BasicAnalysisOf(PageOf(k)) EXCEPT
            !.issues = CASE k = 1 -> <<"a1", "a2", "a3">>
                         [] k = 2 -> <<"b1", "b2", "b3">>
                         [] k = 3 -> <<"c1", "c2", "c3">>
                         [] OTHER -> <<"d1", "d2", "d3">>]]

AnalysisLists ==
    UNION { [1..n -> AnalysisKinds] : n \in 0..MaxAnalyses } \cup {WideAnalyses}

Aggregators == {"_extractKeyMetrics", "_generateEnhancedStatistics",
                "_identifyCommonIssues"}

\* what aggregator f returns for the list
Aggregate(f, perPageAnalysis) ==
    CASE f = "_extractKeyMetrics" -> _extractKeyMetrics(perPageAnalysis)
      [] f = "_generateEnhancedStatistics" -> _generateEnhancedStatistics(perPageAnalysis)
      [] OTHER -> _identifyCommonIssues(perPageAnalysis)

_extractKeyMetrics_Call ==
    /\ fpc = "idle"
    /\ fin.fn = "_extractKeyMetrics"
    /\ fout' = _extractKeyMetrics(fin.perPageAnalysis)
    /\ fpc' = "done"
    /\ UNCHANGED <<fin, chunkVars, auditVars, workVars, sideVars>>

_generateEnhancedStatistics_Call ==
    /\ fpc = "idle"
    /\ fin.fn = "_generateEnhancedStatistics"
    /\ fout' = _generateEnhancedStatistics(fin.perPageAnalysis)
    /\ fpc' = "done"
    /\ UNCHANGED <<fin, chunkVars, auditVars, workVars, sideVars>>

_identifyCommonIssues_Call ==
    /\ fpc = "idle"
    /\ fin.fn = "_identifyCommonIssues"
    /\ fout' = _identifyCommonIssues(fin.perPageAnalysis)
    /\ fpc' = "done"
    /\ UNCHANGED <<fin, chunkVars, auditVars, workVars, sideVars>>

InitAggregate ==
    /\ rows = <<>>
    /\ ChunkIdle
    /\ AuditIdle
    /\ WorkIdle
    /\ fpc = "idle"
    /\ fin \in { [fn |-> f, perPageAnalysis |-> l] :
                    f \in Aggregators, l \in AnalysisLists }
    /\ fout = <<>>

NextAggregate ==
    \/ _extractKeyMetrics_Call
    \/ _generateEnhancedStatistics_Call
    \/ _identifyCommonIssues_Call

SpecAggregate == InitAggregate /\ [][NextAggregate]_vars

(***************************************************************************)
(* _calculateEstimatedImpact as a function of score and priority           *)
(***************************************************************************)
MaxScore == 100       \* SpecImpact: scores in 0..MaxScore

Priorities == {"High", "Medium", "Low"}

_calculateEstimatedImpact_Call ==
    /\ fpc = "idle"
    /\ fin.fn = "_calculateEstimatedImpact"
    /\ fout' = _calculateEstimatedImpact(fin.score, fin.priority)
    /\ fpc' = "done"
    /\ UNCHANGED <<fin, chunkVars, auditVars, workVars, sideVars>>

InitImpact ==
    /\ rows = <<>>
    /\ ChunkIdle
    /\ AuditIdle
    /\ WorkIdle
    /\ fpc = "idle"
    /\ fin \in { [fn |-> "_calculateEstimatedImpact", score |-> x, priority |-> q] :
                    x \in 0..MaxScore, q \in Priorities }
    /\ fout = <<>>

NextImpact == _calculateEstimatedImpact_Call

SpecImpact == InitImpact /\ [][NextImpact]_vars

(***************************************************************************)
(* The run of the workflow: run-workflow.js loads its modules (the         *)
(* AuditService is constructed on require), executeWorkflow crawls the     *)
(* site and calls analyzeWebsite, which loads and filters the export,      *)
(* calls analyzeCSVData (chunking, _processChunksOptimized,                *)
(* _generateFinalAnalysis), analyzeIndividualPages and writes the reports. *)
(* File-system failures are left out; the crawl and every API call may     *)
(* fail.                                                                   *)
(***************************************************************************)
MaxCsvRows == 2       \* SpecWorkflow: rows of the crawl export

FieldWidth == 8       \* characters of a field value in a row string

SiteChunkSize == 25   \* chunkService.chunkBySize(csvData, 25)

SiteTokenLimit == 4000   \* chunkService.smartChunk(csvData, 4000)

MinWordCount == 50    \* parseInt(row['Word Count']) > 50

AssetUrl == 98        \* an Address that matches one of the excludePatterns

Slug == "example-com"

\* mutant: every URL passes the validation
UrlRejected_Never(u) == FALSE

\* if (!url || !validateUrl(url)) throw new Error('Invalid URL provided')
UrlRejected(u) == u # "valid"

\* mutant: the constructor does not look at the key
MissingKeyThrows_Never(key) == FALSE

\* if (!process.env.OPENAI_API_KEY) throw new Error(...)
MissingKeyThrows(key) == ~key

\* the rows a crawl export may hold: pages, an error page, an asset, a page
\* of few words
CsvRowKinds ==
    { PageOf(1), PageOf(2), PageOf(3),
      [PageOf(1) EXCEPT !.Address = AssetUrl],
      [PageOf(3) EXCEPT !.WordCount = MinWordCount] }

CsvInputs == UNION { [1..n -> CsvRowKinds] : n \in 0..MaxCsvRows }

_filterActualPages(csv) ==
    SelectSeq(csv, LAMBDA row :
        LET isSuccessful == row.StatusCode = "200" \/ row.StatusCode = ""
            isNotExcluded == row.Address # AssetUrl
            hasContent == row.WordCount > MinWordCount
        IN  isSuccessful /\ isNotExcluded /\ hasContent)

\* the essential fields of a row that hold a value ("0" is a value)
EssentialValues(page) ==
    2 + Cardinality({ f \in {"Title", "Meta", "H1", "StatusCode"} : page[f] # "" })

\* a crawl row as the chunk service sees it: values.join(' | ')
PageRow(page, k) ==
    [id |-> k,
     text |-> [len |-> FieldWidth * EssentialValues(page)
                       + 3 * (EssentialValues(page) - 1),
               pfx |-> page.Address]]

PageRows(pd) == [k \in 1..Len(pd) |-> PageRow(pd[k], k)]

\* analyzeCSVData: if (csvData.length > 300) chunkBySize(csvData, 25)
\* else smartChunk(csvData, 4000)
siteChunkStrategy(rs) ==
    IF Len(rs) > AdaptiveSpeedThreshold
    THEN [mode |-> "bySize", chunkSize |-> SiteChunkSize, tokenLimit |-> 0]
    ELSE smartChunkStrategy(rs, SiteTokenLimit)

\* the messages of _generateFinalAnalysis: the system prompt and the user
\* prompt, which names the slug
_generateFinalAnalysis_messages(chunkResults, slug) ==
    << [role |-> "system", content |-> <<"expert SEO analyst">>],
       [role |-> "user", content |-> <<"Based on analyses for", slug>>] >>

\* require('../src/controllers/auditController') constructs the AuditService
require_auditController ==
    /\ wpc = "boot"
    /\ wpc' = IF MissingKeyThrows(hasKey) THEN "loadFailed" ELSE "ready"
    /\ UNCHANGED <<hasKey, csvData, url, siteAnalysis, currentStep, crawlResult,
                   chunkVars, auditVars, fnVars, sideVars>>

\* executeWorkflow: URL validation, then crawlController.crawlWebsite(url, slug)
executeWorkflow_Call ==
    /\ wpc = "ready"
    /\ IF UrlRejected(url)
       THEN wpc' = "failed" /\ currentStep' = "url_validation"
       ELSE wpc' = "crawling" /\ currentStep' = "website_crawling"
    /\ UNCHANGED <<hasKey, csvData, url, siteAnalysis, crawlResult,
                   chunkVars, auditVars, fnVars, sideVars>>

\* the crawl ends: on success analyzeWebsite(slug) reads and filters the
\* export and calls analyzeCSVData(pageData, slug)
crawlWebsite_Done ==
    /\ wpc = "crawling"
    /\ \E ok \in BOOLEAN :
          IF ok
          THEN /\ wpc' = "analyzeCSVData"
               /\ crawlResult' = "success"
               /\ currentStep' = "seo_analysis"
               /\ rows' = PageRows(_filterActualPages(csvData))
          ELSE /\ wpc' = "failed"
               /\ UNCHANGED <<rows, crawlResult, currentStep>>
    /\ UNCHANGED <<hasKey, csvData, url, sideVars, siteAnalysis, op, args, cpc, mode, chunkSize,
                   tokenLimit, i, ri, chunks, currentChunk, tokenCount, tokenCache,
                   auditVars, fnVars>>

\* analyzeCSVData: the prompt is read, the chunker is chosen and called
analyzeCSVData_Call ==
    /\ wpc = "analyzeCSVData"
    /\ cpc = "idle"
    /\ LET s == siteChunkStrategy(rows)
       IN  /\ op' = "analyzeCSVData"
           /\ args' = [DefaultArgs EXCEPT !.chunkSize = SiteChunkSize,
                                          !.tokenLimit = SiteTokenLimit]
           /\ mode' = s.mode
           /\ chunkSize' = s.chunkSize
           /\ tokenLimit' = s.tokenLimit
    /\ cpc' = "loop"
    /\ i' = 0
    /\ ri' = 1
    /\ chunks' = <<>>
    /\ currentChunk' = <<>>
    /\ tokenCount' = 0
    /\ wpc' = "chunking"
    /\ UNCHANGED <<rows, tokenCache, hasKey, csvData, siteAnalysis, url, currentStep,
                   crawlResult, auditVars, fnVars, sideVars>>

\* the chunker has returned: _processChunksOptimized(chunks, ...) is called
analyzeCSVData_Chunked ==
    /\ wpc = "chunking"
    /\ cpc = "done"
    /\ wpc' = "processChunks"
    /\ dmode' = "chunks"
    /\ retries' = DispatchRetries
    /\ batches' = chunks
    /\ call' = [c \in 1..Len(chunks) |-> NewCall]
    /\ dpc' = "idle"
    /\ di' = 0
    /\ results' = <<>>
    /\ UNCHANGED <<pageData, hasKey, csvData, siteAnalysis, url, currentStep,
                   crawlResult, chunkVars, fnVars, sideVars>>

\* _processChunksOptimized has returned: _generateFinalAnalysis(chunkResults,
\* slug) issues its call
_generateFinalAnalysis_Call ==
    /\ wpc = "processChunks"
    /\ dmode = "chunks"
    /\ dpc = "done"
    /\ wpc' = "finalAnalysis"
    /\ siteAnalysis' = [chunkResults |-> results,
                        request |-> _generateFinalAnalysis_messages(results, Slug),
                        finalAnalysis |-> "pending"]
    /\ dmode' = "final"
    /\ call' = <<StartCall(NewCall, 1, DispatchRetries)>>
    /\ dpc' = "awaitCall"
    /\ UNCHANGED <<retries, pageData, batches, di, results, hasKey, csvData, url,
                   currentStep, crawlResult, sideVars,
                   chunkVars, fnVars>>

\* the call of _generateFinalAnalysis has settled: analyzeCSVData returns the
\* site analysis and analyzeWebsite calls analyzeIndividualPages(pageData,
\* slug), or analyzeCSVData logs and rethrows and the run fails
analyzeCSVData_Return ==
    /\ wpc = "finalAnalysis"
    /\ dmode = "final"
    /\ dpc = "done"
    /\ IF call[1].promise = "rejected"
       THEN /\ wpc' = "failed"
            /\ UNCHANGED <<siteAnalysis, dmode, pageData, dpc>>
       ELSE /\ wpc' = "analyzeIndividualPages"
            /\ siteAnalysis' = [siteAnalysis EXCEPT !.finalAnalysis = call[1].value.kind]
            /\ dmode' = "pages"
            /\ pageData' = _filterActualPages(csvData)
            /\ dpc' = "idle"
    /\ UNCHANGED <<retries, batches, call, di, results, hasKey, csvData, url,
                   currentStep, crawlResult, sideVars,
                   chunkVars, fnVars>>

\* analyzeIndividualPages has returned: the reports are written and
\* analyzeWebsite returns its result
analyzeWebsite_Return ==
    /\ wpc = "analyzeIndividualPages"
    /\ dmode = "pages"
    /\ dpc = "done"
    /\ wpc' = "reported"
    /\ currentStep' = "result_preparation"
    /\ UNCHANGED <<hasKey, csvData, url, siteAnalysis, crawlResult,
                   chunkVars, auditVars, fnVars, sideVars>>

InitWorkflow ==
    /\ rows = <<>>
    /\ ChunkIdle
    /\ AuditIdle
    /\ FnIdle
    /\ wpc = "boot"
    /\ hasKey \in BOOLEAN
    /\ csvData \in CsvInputs
    /\ siteAnalysis = NoSiteAnalysis
    /\ url \in {"valid", "invalid"}
    /\ currentStep = "initialization"
    /\ crawlResult = "none"
    /\ SideIdle

NextWorkflow ==
    \/ require_auditController
    \/ executeWorkflow_Call
    \/ crawlWebsite_Done
    \/ analyzeCSVData_Call
    \/ chunkByTokensFast_Loop
    \/ chunkByTokensFast_Return
    \/ analyzeCSVData_Chunked
    \/ _processChunksOptimized_Call
    \/ _generateFinalAnalysis_Call
    \/ analyzeCSVData_Return
    \/ analyzeIndividualPages_Call
    \/ ApiSuccess
    \/ ApiFailRetry
    \/ ApiFailFinal
    \/ RetryDelayElapsed
    \/ analyzeWebsite_Return

SpecWorkflow == InitWorkflow /\ [][NextWorkflow]_vars

\* analyzeCSVData called on the rows of a site, up to the return of its
\* chunker
InitSiteChunk ==
    /\ rows \in SmallInputs \cup LargeInputs
    /\ ChunkIdle
    /\ AuditIdle
    /\ FnIdle
    /\ wpc = "analyzeCSVData"
    /\ hasKey = TRUE
    /\ csvData = <<>>
    /\ siteAnalysis = NoSiteAnalysis
    /\ url = "valid"
    /\ currentStep = "seo_analysis"
    /\ crawlResult = "success"
    /\ SideIdle

NextSiteChunk ==
    \/ analyzeCSVData_Call
    \/ chunkBySize_Loop
    \/ chunkBySize_Return
    \/ chunkByTokensFast_Loop
    \/ chunkByTokensFast_Return

SpecSiteChunk == InitSiteChunk /\ [][NextSiteChunk]_vars

\* ---------------------------------------------------------------------
\* POST /crawl-site: every request runs executeWorkflow on its own; the
\* handler takes no lock, so the awaits of two requests interleave.
\* A run is [url, pc, read]: read is the run whose crawl wrote the CSV
\* that the audit of this run loaded (0: none yet).
\* ---------------------------------------------------------------------
MaxRuns == 2          \* SpecConcurrent: requests in flight

NewRun(u) == [url |-> u, pc |-> "received", read |-> 0]

\* what a run of executeWorkflow leaves alone in this view
besideRuns == <<crawl, clock, report, chunkVars, auditVars, fnVars, workVars>>

DirOf(r) == generateSlug(runs[r].url)

\* crawlWebsite: await fileService.removeDirectory(outputDir)
removeDirectory(r) ==
    /\ runs[r].pc = "received"
    /\ exportDir' = [exportDir EXCEPT ![DirOf(r)] = NoDir]
    /\ runs' = [runs EXCEPT ![r].pc = "removed"]
    /\ UNCHANGED besideRuns

\* crawlWebsite: await fileService.ensureDirectoryExists(outputDir), then
\* crawlerService.execute starts the crawler process
ensureDirectoryExists(r) ==
    /\ runs[r].pc = "removed"
    /\ exportDir' = [exportDir EXCEPT ![DirOf(r)].exists = TRUE]
    /\ runs' = [runs EXCEPT ![r].pc = "crawling"]
    /\ UNCHANGED besideRuns

\* the crawler process of run r writes its export into outputDir
crawler_Export(r) ==
    /\ runs[r].pc = "crawling"
    /\ exportDir[DirOf(r)].exists
    /\ exportDir' = [exportDir EXCEPT ![DirOf(r)].csv = r]
    /\ runs' = [runs EXCEPT ![r].pc = "exported"]
    /\ UNCHANGED besideRuns

\* the crawler process fails on every attempt: execute throws
crawler_Fail(r) ==
    /\ runs[r].pc = "crawling"
    /\ runs' = [runs EXCEPT ![r].pc = "failed"]
    /\ UNCHANGED <<exportDir, besideRuns>>

\* execAsync resolves, _validateOutputFiles never throws: crawlWebsite returns
crawlWebsite_Return(r) ==
    /\ runs[r].pc = "exported"
    /\ runs' = [runs EXCEPT ![r].pc = "crawled"]
    /\ UNCHANGED <<exportDir, besideRuns>>

\* analyzeWebsite: csvData = await fileService.readAndParseCSV(csvPath)
readAndParseCSV(r) ==
    /\ runs[r].pc = "crawled"
    /\ runs' = IF exportDir[DirOf(r)].csv = 0
               THEN [runs EXCEPT ![r].pc = "failed"]
               ELSE [runs EXCEPT ![r].pc = "auditing",
                                 ![r].read = exportDir[DirOf(r)].csv]
    /\ UNCHANGED <<exportDir, besideRuns>>

InitConcurrent ==
    /\ runs \in [1..MaxRuns -> {NewRun(u) : u \in ConcurrentUrls}]
    /\ exportDir = NoDirs
    /\ CrawlIdle
    /\ ReportIdle
    /\ rows = <<>>
    /\ ChunkIdle
    /\ AuditIdle
    /\ FlowIdle
    /\ FnIdle

NextConcurrent ==
    \/ \E r \in DOMAIN runs : removeDirectory(r)
    \/ \E r \in DOMAIN runs : ensureDirectoryExists(r)
    \/ \E r \in DOMAIN runs : crawler_Export(r)
    \/ \E r \in DOMAIN runs : crawler_Fail(r)
    \/ \E r \in DOMAIN runs : crawlWebsite_Return(r)
    \/ \E r \in DOMAIN runs : readAndParseCSV(r)

SpecConcurrent == InitConcurrent /\ [][NextConcurrent]_vars

\* ---------------------------------------------------------------------
\* CrawlerService.execute(url, outputDir, retries)
\* ---------------------------------------------------------------------
MaxCrawlRetries == 4      \* SpecCrawl: largest retries argument
DefaultMaxAttempts == 3   \* parseInt(process.env.MAX_RETRIES) || 3
RetryWait == 5000         \* _waitForRetry: const delay = 5000

besideCrawl == <<runs, exportDir, clock, report, chunkVars, auditVars, fnVars, workVars>>

\* what execAsync rejects with
CrawlErrors == {"timeout", "exit"}

\* mutant: the last attempt is not recognised
LastAttempt_Never(attempt, n) == FALSE

\* if (attempt === retries) throw ...
LastAttempt(attempt, n) == attempt = n

\* the loop head: for (...; attempt <= retries; ...) runs the command, and
\* falling out of the loop returns undefined
LoopHead(cr, attempt) ==
    IF attempt <= cr.retries
    THEN [cr EXCEPT !.st = "running", !.attempt = attempt, !.nRuns = @ + 1]
    ELSE [cr EXCEPT !.st = "returnedUndefined", !.attempt = attempt]

execute_Call ==
    /\ crawl.st = "none"
    /\ \E n \in (0..MaxCrawlRetries) \cup {DefaultMaxAttempts} :
          crawl' = LoopHead([NoCrawl EXCEPT !.retries = n], 1)
    /\ UNCHANGED besideCrawl

\* execAsync resolves; _validateOutputFiles swallows its errors; return
execAsync_Resolves ==
    /\ crawl.st = "running"
    /\ crawl' = [crawl EXCEPT !.st = "returned"]
    /\ UNCHANGED besideCrawl

\* execAsync rejects: the catch logs, then throws or waits
execAsync_Rejects ==
    /\ crawl.st = "running"
    /\ \E e \in CrawlErrors :
          LET logged == [crawl EXCEPT !.errors = Append(@, e)]
          IN  crawl' = IF LastAttempt(crawl.attempt, crawl.retries)
                       THEN [logged EXCEPT !.st = "threw", !.thrown = crawl.retries]
                       ELSE [logged EXCEPT !.st = "waiting",
                                           !.waits = Append(@, RetryWait)]
    /\ UNCHANGED besideCrawl

\* the timer of _waitForRetry fires: attempt++
_waitForRetry_Elapsed ==
    /\ crawl.st = "waiting"
    /\ crawl' = LoopHead(crawl, crawl.attempt + 1)
    /\ UNCHANGED besideCrawl

InitCrawl ==
    /\ RunsIdle
    /\ CrawlIdle
    /\ ReportIdle
    /\ rows = <<>>
    /\ ChunkIdle
    /\ AuditIdle
    /\ FlowIdle
    /\ FnIdle

NextCrawl ==
    \/ execute_Call
    \/ execAsync_Resolves
    \/ execAsync_Rejects
    \/ _waitForRetry_Elapsed

SpecCrawl == InitCrawl /\ [][NextCrawl]_vars

\* ---------------------------------------------------------------------
\* ReportService: the session directory reports/<slug>/<timestamp> of the
\* reports analyzeWebsite writes.  The clock counts ticks; a directory is
\* named by the second its timestamp falls in.
\* ---------------------------------------------------------------------
MaxClock == 9         \* SpecReports: ticks the clock can reach
TicksPerSecond == 2   \* SpecReports: ticks in one second

\* new Date().toISOString().replace(...).substring(0, 19): YYYY-MM-DDTHH-MM-SS
Timestamp(t) == t \div TicksPerSecond

besideReports == <<runs, exportDir, crawl, chunkVars, auditVars, fnVars, workVars>>

\* createReportDirectory(slug).sessionDir at the current time
createReportDirectory == Timestamp(clock)

\* time passes while a report is being prepared or written
Tick ==
    /\ clock < MaxClock
    /\ clock' = clock + 1
    /\ UNCHANGED <<report, besideReports>>

\* const siteReportPath = await reportService.saveComprehensiveReport(...)
saveComprehensiveReport ==
    /\ report.pc = "none"
    /\ report' = [report EXCEPT !.pc = "comprehensive",
                                !.comprehensive = createReportDirectory]
    /\ UNCHANGED <<clock, besideReports>>

\* const perPageReports = await perPageReportService.generatePerPageReports(...)
generatePerPageReports ==
    /\ report.pc = "comprehensive"
    /\ report' = [report EXCEPT !.pc = "perPage"]
    /\ UNCHANGED <<clock, besideReports>>

\* const executiveSummary = await reportService.generateExecutiveSummary(...)
generateExecutiveSummary ==
    /\ report.pc = "perPage"
    /\ report' = [report EXCEPT !.pc = "summary",
                                !.summary = createReportDirectory]
    /\ UNCHANGED <<clock, besideReports>>

InitReports ==
    /\ clock \in 0..MaxClock
    /\ report = NoReport
    /\ RunsIdle
    /\ CrawlIdle
    /\ rows = <<>>
    /\ ChunkIdle
    /\ AuditIdle
    /\ FlowIdle
    /\ FnIdle

NextReports ==
    \/ Tick
    \/ saveComprehensiveReport
    \/ generatePerPageReports
    \/ generateExecutiveSummary

SpecReports == InitReports /\ [][NextReports]_vars

(***************************************************************************)
(* The token cache under sequences of estimateTokensFast and clearCache    *)
(* calls: a script names the call made at each position                    *)
(***************************************************************************)
ExtraCalls == 2       \* SpecCache: calls after the second eviction

PrefixLen == 50       \* text.substring(0, 50)

CacheCalls == CacheLimit + CacheEvict + ExtraCalls

\* the text of length k whose first 50 characters are those of prefix 0
TextOf(k) == [len |-> k, pfx |-> 0, tail |-> 0]

\* another text of the same length and the same first 50 characters (a
\* text of at most 50 characters has no such twin)
Twin(text) == IF text.len > PrefixLen THEN [text EXCEPT !.tail = 1] ELSE text

ClearCall == [len |-> 0, pfx |-> 0, tail |-> -1]

ScriptNames == {"fresh", "twins", "revisit", "clears"}

\* the call a script makes at position k: estimateTokensFast of a text, or
\* clearCache (ClearCall)
ScriptAt(name, k) ==
    CASE name = "fresh" -> TextOf(k)
      [] name = "twins" ->
            IF k % 3 = 1 THEN TextOf(PrefixLen + k)
            ELSE IF k % 3 = 2 THEN Twin(TextOf(PrefixLen + k - 1))
            ELSE [TextOf(PrefixLen + k - 2) EXCEPT !.pfx = 1]
      [] name = "revisit" ->
            LET j == k - (CacheLimit + 1)
            IN  IF j <= 0 THEN TextOf(k)
                ELSE IF j % 5 = 1 THEN TextOf(j)                     \* evicted
                ELSE IF j % 5 = 2 THEN TextOf(CacheEvict + 1)        \* oldest kept
                ELSE IF j % 5 = 3 THEN Twin(TextOf(CacheLimit + 1))  \* newest, twin
                ELSE IF j % 5 = 4 THEN TextOf(0)                     \* empty text
                ELSE ClearCall
      [] OTHER ->
            IF k % (CacheEvict + 1) = 0 THEN ClearCall ELSE TextOf(k % CacheLimit)

ScriptLen(name) ==
    CASE name = "fresh" -> CacheCalls
      [] name = "twins" -> 3 * ExtraCalls + 1
      [] name = "revisit" -> CacheLimit + 1 + 5 * ExtraCalls
      [] OTHER -> CacheEvict + ExtraCalls

\* at: calls made; text, tokens: the last estimate; prev: the one before
NoEstimate == [at |-> 0, text |-> ClearCall, tokens |-> 0,
               prev |-> [len |-> 0, tokens |-> 0]]

estimateTokensFast_Call ==
    /\ fin.fn = "estimateTokensFast"
    /\ fout.at < ScriptLen(fin.script)
    /\ ScriptAt(fin.script, fout.at + 1) # ClearCall
    /\ LET text == ScriptAt(fin.script, fout.at + 1)
           est == estimateTokensFast(text, tokenCache)
       IN  /\ tokenCache' = est.cache
           /\ fout' = [at |-> fout.at + 1, text |-> text, tokens |-> est.tokens,
                       prev |-> IF fout.text = ClearCall THEN fout.prev
                                ELSE [len |-> fout.text.len, tokens |-> fout.tokens]]
    /\ fpc' = "called"
    /\ UNCHANGED <<fin, rows, op, args, cpc, mode, chunkSize, tokenLimit, i, ri, chunks,
                   currentChunk, tokenCount, auditVars, workVars, sideVars>>

clearCache_Call ==
    /\ fin.fn = "estimateTokensFast"
    /\ fout.at < ScriptLen(fin.script)
    /\ ScriptAt(fin.script, fout.at + 1) = ClearCall
    /\ tokenCache' = <<>>
    /\ fout' = [fout EXCEPT !.at = @ + 1]
    /\ fpc' = "called"
    /\ UNCHANGED <<fin, rows, op, args, cpc, mode, chunkSize, tokenLimit, i, ri, chunks,
                   currentChunk, tokenCount, auditVars, workVars, sideVars>>

InitCache ==
    /\ rows = <<>>
    /\ ChunkIdle
    /\ AuditIdle
    /\ WorkIdle
    /\ fpc = "idle"
    /\ fin \in { [fn |-> "estimateTokensFast", script |-> n] : n \in ScriptNames }
    /\ fout = NoEstimate

NextCache ==
    \/ estimateTokensFast_Call
    \/ clearCache_Call

SpecCache == InitCache /\ [][NextCache]_vars

(***************************************************************************)
(* Two runs of _generateFinalAnalysis for the same site, side by side      *)
(***************************************************************************)
MaxChunkResults == 2  \* SpecSynthesis: chunk results of a run

\* what _processChunksOptimized may return: outcomes of chunks, some dropped
ChunkResultLists ==
    UNION { [1..n -> { [batch |-> c, kind |-> k, analyses |-> <<>>] :
                          c \in 1..MaxChunkResults, k \in {"text", "empty"} }] :
            n \in 0..MaxChunkResults }

_generateFinalAnalysis_Runs ==
    /\ fpc = "idle"
    /\ fin.fn = "_generateFinalAnalysis"
    /\ fout' = [a |-> _generateFinalAnalysis_messages(fin.runA, fin.slug),
                b |-> _generateFinalAnalysis_messages(fin.runB, fin.slug)]
    /\ fpc' = "done"
    /\ UNCHANGED <<fin, chunkVars, auditVars, workVars, sideVars>>

InitSynthesis ==
    /\ rows = <<>>
    /\ ChunkIdle
    /\ AuditIdle
    /\ WorkIdle
    /\ fpc = "idle"
    /\ fin \in { [fn |-> "_generateFinalAnalysis", slug |-> Slug, runA |-> a, runB |-> b] :
                    a \in ChunkResultLists, b \in ChunkResultLists }
    /\ fout = <<>>

NextSynthesis == _generateFinalAnalysis_Runs

SpecSynthesis == InitSynthesis /\ [][NextSynthesis]_vars

(***************************************************************************)
(* The rankings of the dashboard (_getTopPerformingPages,                  *)
(* _getWorstPerformingPages, auditController.js) and the per-page summary  *)
(* (_generateSummaryReport, perPageReportService.js)                       *)
(***************************************************************************)
MaxCount == 2         \* SpecRank: count in 0..MaxCount, and the default

DefaultCount == 5     \* count = 5

\* an analysis parsed from a section that says 'SEO SCORE: 0'
ZeroScored ==
    _extractPageData([WellFormed EXCEPT !.url = UnknownUrl, !.score = 0], PageOf(2))

\* the analyses the rankings are given: two of equal score, one of score 0
RankKinds ==
    { BasicAnalysisOf(PageOf(1)), BasicAnalysisOf(PageOf(2)),
      _extractPageData([WellFormed EXCEPT !.url = UnknownUrl], PageOf(3)),
      _extractPageData([WellFormed EXCEPT !.url = UnknownUrl, !.priority = "Low"],
                       PageOf(4)),
      ZeroScored }

RankLists == UNION { [1..n -> RankKinds] : n \in 0..MaxAnalyses }

\* .filter(page => page.seoScore): the pages whose score is truthy
ScoredPages(perPageAnalysis) == SelectSeq(perPageAnalysis, LAMBDA a : a.seoScore # 0)

\* the place of x in a list sorted by score (.sort is stable): after every
\* entry that does not come after it
InsertByScore(sorted, x, descending) ==
    LET pos == Cardinality({ k \in 1..Len(sorted) :
                   IF descending THEN sorted[k].seoScore >= x.seoScore
                   ELSE sorted[k].seoScore <= x.seoScore })
    IN  SubSeq(sorted, 1, pos) \o <<x>> \o SubSeq(sorted, pos + 1, Len(sorted))

RECURSIVE SortByScore(_, _)
\* .sort((a, b) => b.seoScore - a.seoScore) / (a.seoScore - b.seoScore)
SortByScore(list, descending) ==
    IF list = <<>> THEN <<>>
    ELSE InsertByScore(SortByScore(SubSeq(list, 1, Len(list) - 1), descending),
                       list[Len(list)], descending)

_getTopPerformingPages(perPageAnalysis, count) ==
    LET top == Slice(SortByScore(ScoredPages(perPageAnalysis), TRUE), 0, count)
    IN  [k \in 1..Len(top) |-> [url |-> top[k].url, score |-> top[k].seoScore]]

_getWorstPerformingPages(perPageAnalysis, count) ==
    LET worst == Slice(SortByScore(ScoredPages(perPageAnalysis), FALSE), 0, count)
    IN  [k \in 1..Len(worst) |->
            [url |-> worst[k].url, score |-> worst[k].seoScore,
             criticalIssues |-> Slice(worst[k].issues, 0, 3)]]

\* the figures the summary report prints
_generateSummaryReport(perPageAnalysis) ==
    LET n == Len(perPageAnalysis)
        all == [k \in 1..n |-> perPageAnalysis[k].seoScore]
        scores == SelectSeq(all, LAMBDA x : x # 0)   \* .filter(s => s)
    IN  [averageScore |-> AverageOrZero(scores),     \* Math.round(averageScore)
         totalPages |-> n,
         highPriority |-> CountIn(perPageAnalysis,
                              {a \in Range(perPageAnalysis) : a.priority = "High"}),
         mediumPriority |-> CountIn(perPageAnalysis,
                              {a \in Range(perPageAnalysis) : a.priority = "Medium"}),
         lowPriority |-> CountIn(perPageAnalysis,
                              {a \in Range(perPageAnalysis) : a.priority = "Low"}),
         topPages |-> Slice(SortByScore(ScoredPages(perPageAnalysis), TRUE),
                            0, DefaultCount),
         worstPages |-> Slice(SortByScore(ScoredPages(perPageAnalysis), FALSE),
                              0, DefaultCount)]

_getTopPerformingPages_Call ==
    /\ fpc = "idle"
    /\ fin.fn = "_getTopPerformingPages"
    /\ fout' = _getTopPerformingPages(fin.perPageAnalysis, fin.count)
    /\ fpc' = "done"
    /\ UNCHANGED <<fin, chunkVars, auditVars, workVars, sideVars>>

_getWorstPerformingPages_Call ==
    /\ fpc = "idle"
    /\ fin.fn = "_getWorstPerformingPages"
    /\ fout' = _getWorstPerformingPages(fin.perPageAnalysis, fin.count)
    /\ fpc' = "done"
    /\ UNCHANGED <<fin, chunkVars, auditVars, workVars, sideVars>>

_generateSummaryReport_Call ==
    /\ fpc = "idle"
    /\ fin.fn = "_generateSummaryReport"
    /\ fout' = _generateSummaryReport(fin.perPageAnalysis)
    /\ fpc' = "done"
    /\ UNCHANGED <<fin, chunkVars, auditVars, workVars, sideVars>>

InitRank ==
    /\ rows = <<>>
    /\ ChunkIdle
    /\ AuditIdle
    /\ WorkIdle
    /\ fpc = "idle"
    /\ fin \in { [fn |-> f, perPageAnalysis |-> l, count |-> c] :
                    f \in {"_getTopPerformingPages", "_getWorstPerformingPages"},
                    l \in RankLists, c \in (0..MaxCount) \cup {DefaultCount} }
               \cup { [fn |-> "_generateSummaryReport", perPageAnalysis |-> l,
                       count |-> DefaultCount] : l \in RankLists }
    /\ fout = <<>>

NextRank ==
    \/ _getTopPerformingPages_Call
    \/ _getWorstPerformingPages_Call
    \/ _generateSummaryReport_Call

SpecRank == InitRank /\ [][NextRank]_vars

(***************************************************************************)
(* Properties of the chunking operations (checked under SpecChunk)         *)
(***************************************************************************)
\* the call's limits are all positive
PositiveLimits ==
    CASE op \in {"chunkBySize", "_createPageBatches"} -> args.chunkSize >= 1
      [] op \in {"chunkByTokensFast", "smartChunk"} -> args.tokenLimit >= 1
      [] op = "adaptiveChunk" ->
            args.tokenLimit >= 1 /\ args.targetChunks >= 1 /\ args.maxChunkSize >= 1
      [] op = "efficientChunkForLargeData" -> args.maxMemoryChunks >= 1
      [] OTHER -> FALSE

\* summed token estimate of the rows of a chunk
ChunkTokens(c) == SumTokens([k \in 1..Len(c) |-> RowTokens(c[k])])

\* C1: for every positive limit, each of chunkBySize, chunkByTokensFast,
\* smartChunk, adaptiveChunk and efficientChunkForLargeData returns batches
\* whose concatenation, in order, is the input: no row dropped, duplicated
\* or reordered.
C1_ConcatenationIsInput ==
    ( /\ cpc = "done"
      /\ op \in {"chunkBySize", "chunkByTokensFast", "smartChunk", "adaptiveChunk",
                 "efficientChunkForLargeData"}
      /\ PositiveLimits )
    => Flatten(chunks) = rows

\* a token-bounded call has returned several batches, one of several rows
C1_Witness ==
    /\ cpc = "done"
    /\ op = "adaptiveChunk"
    /\ mode = "byTokens"
    /\ PositiveLimits
    /\ Len(chunks) >= 2
    /\ \E k \in 1..Len(chunks) : Len(chunks[k]) >= 2

\* C2: every returned batch holds at least one row (so an empty input gives
\* no batch), and in token-bounded chunking a row whose own estimate exceeds
\* tokenLimit is returned as a batch of that row alone.
C2_NoEmptyBatchOversizeAlone ==
    cpc = "done" =>
        /\ \A k \in 1..Len(chunks) : Len(chunks[k]) >= 1
        /\ rows = <<>> => chunks = <<>>
        /\ mode = "byTokens" =>
             \A k \in 1..Len(chunks) : \A j \in 1..Len(chunks[k]) :
                 RowTokens(chunks[k][j]) > tokenLimit => Len(chunks[k]) = 1

\* an oversize row was returned alone, after a batch of several rows
C2_Witness ==
    /\ cpc = "done"
    /\ mode = "byTokens"
    /\ \E k \in 2..Len(chunks) :
          /\ Len(chunks[k]) = 1
          /\ RowTokens(chunks[k][1]) > tokenLimit
          /\ Len(chunks[k - 1]) >= 2

\* C3: in chunkByTokensFast every returned batch of more than one row has a
\* summed estimate of at most tokenLimit, and a batch is closed only when the
\* next row would exceed the limit: sum(B_k) + estimate(first row of B_(k+1))
\* > tokenLimit for consecutive batches.
C3_TokenBoundAndGreedy ==
    (cpc = "done" /\ mode = "byTokens") =>
        /\ \A k \in 1..Len(chunks) :
               Len(chunks[k]) > 1 => ChunkTokens(chunks[k]) <= tokenLimit
        /\ \A k \in 1..(Len(chunks) - 1) :
               ChunkTokens(chunks[k]) + RowTokens(chunks[k + 1][1]) > tokenLimit

\* a batch of several rows was closed before a row that fits the limit alone
C3_Witness ==
    /\ cpc = "done"
    /\ mode = "byTokens"
    /\ \E k \in 1..(Len(chunks) - 1) :
          /\ Len(chunks[k]) > 1
          /\ RowTokens(chunks[k + 1][1]) >= 1
          /\ RowTokens(chunks[k + 1][1]) <= tokenLimit

\* C4: chunkBySize(rows, N) and _createPageBatches(rows, N), N >= 1, return
\* ceil(len(rows)/N) batches, each but the last of exactly N rows and the last
\* of 1..N rows.
C4_FixedSizeShape ==
    ( /\ cpc = "done"
      /\ op \in {"chunkBySize", "_createPageBatches"}
      /\ args.chunkSize >= 1 )
    => /\ Len(chunks) = CeilDiv(Len(rows), args.chunkSize)
       /\ \A k \in 1..(Len(chunks) - 1) : Len(chunks[k]) = args.chunkSize
       /\ Len(chunks) > 0 =>
              /\ Len(chunks[Len(chunks)]) >= 1
              /\ Len(chunks[Len(chunks)]) <= args.chunkSize

\* page batches were returned, the last one shorter than the others
C4_Witness ==
    /\ cpc = "done"
    /\ op = "_createPageBatches"
    /\ args.chunkSize >= 2
    /\ Len(chunks) >= 2
    /\ Len(chunks[Len(chunks)]) < args.chunkSize

(***************************************************************************)
(* Properties of _callOpenAIWithRetry (checked under SpecRetry)            *)
(***************************************************************************)
Settled(cr) == cr.st \in {"returned", "threw"}

\* what holds of the one call of SpecRetry at every moment
RetryCallShape(cr) ==
    /\ cr.nCalls <= retries
    /\ cr.st = "returned" =>
          /\ cr.nCalls = cr.attempt
          /\ Len(cr.delays) = cr.attempt - 1
          /\ cr.value.kind \in {"text", "undefined"}
    /\ cr.st = "threw" =>
          /\ cr.nCalls = retries
          /\ Len(cr.delays) = retries - 1
          /\ cr.thrown = cr.lastError
          /\ cr.thrown \in ErrorKinds

\* C9: _callOpenAIWithRetry(messages, retries), retries >= 1, issues at most
\* `retries` API calls, returns at the first successful call and issues none
\* after it, and when every call fails throws the last error after exactly
\* `retries` calls, with no delay awaited after the last attempt.
C9_RetryContract ==
    /\ [](retries >= 1 => RetryCallShape(call[1]))
    /\ [][(retries >= 1 /\ Settled(call[1])) => call' = call]_vars

\* three attempts failed and the call threw
C9_Witness ==
    /\ dmode = "single"
    /\ retries >= 3
    /\ call[1].st = "threw"
    /\ call[1].nCalls = retries

\* tenths of the multipliers an exponential backoff may use: 1.0 .. 4.0
BackoffMultipliers10 == 10..40

BackoffCap == 10000   \* Math.min(..., 10000) of the earlier _callOpenAIWithRetry

Pending(c) == call[c].promise = "pending"

\* C5: the element at position k of the result is the outcome of input
\* batch k, for every completion order inside a window and every pattern of
\* failing batches.
C5_ResultsInInputOrder ==
    dpc = "done" =>
        IF dmode = "pages"
        THEN Len(pageData) <= LargeSiteThreshold =>
                results = Flatten([c \in 1..Len(batches) |-> call[c].value.analyses])
        ELSE \A k \in 1..Len(results) : results[k].batch = k

\* C6: for any pattern of failures the chunk dispatcher returns exactly one
\* outcome per input batch, and the outcome of every batch that succeeded,
\* also of one dispatched in the window of a failed batch, is in the result.
C6_OneOutcomePerBatch ==
    (dmode = "chunks" /\ dpc = "done") =>
        /\ Len(results) = Len(batches)
        /\ \A c \in 1..Len(batches) :
              /\ Cardinality({ k \in 1..Len(results) : results[k].batch = c }) = 1
              /\ call[c].promise = "resolved" =>
                    \E k \in 1..Len(results) : results[k] = call[c].value

\* C8: no two windows overlap: no call of a later window is issued while a
\* call of an earlier window is unresolved (in flight or in its retry delay).
C8_NoWindowOverlap ==
    dmode = "chunks" =>
        \A c, d \in DOMAIN call :
            (Pending(c) /\ Pending(d)) => WindowOf(c) = WindowOf(d)

\* the parser has returned
Parsed == fpc = "done" /\ fin.fn = "_parsePageAnalysisResponse"

\* C13: _parsePageAnalysisResponse(response, batch) returns exactly one
\* analysis per page of the batch, aligned by position, whatever the number
\* of sections: a page with no section gets the fallback analysis and a
\* surplus section gives no record.
C13_OneAnalysisPerPage ==
    Parsed =>
        /\ Len(fout) = Len(fin.originalBatch)
        /\ \A k \in 1..Len(fin.originalBatch) :
              IF k <= Len(fin.response)
              THEN fout[k] = _extractPageData(fin.response[k], fin.originalBatch[k])
              ELSE fout[k] = BasicAnalysisOf(fin.originalBatch[k])

\* a section in the prompt's format: a score, the issues as bullet lines
\* under their label, a priority spelled as the format spells it
IsWellFormed(sec) ==
    /\ sec.score >= 0
    /\ sec.hasIssues
    /\ sec.priority \in {"High", "Medium", "Low"}
    /\ Len(sec.issueLines) >= 1
    /\ sec.issueLines[1] = Plain("")
    /\ \A j \in 2..Len(sec.issueLines) :
          sec.issueLines[j].dash /\ sec.issueLines[j].text # ""

\* the texts of the bullet lines, in order
BulletTexts(lines) ==
    LET bullets == SelectSeq(lines, LAMBDA l : l.dash)
    IN  [j \in 1..Len(bullets) |-> bullets[j].text]

\* C14 as claimed: for a well-formed section _extractPageData returns the
\* integer after 'SEO SCORE:' as score, the value after 'PRIORITY:' as
\* priority, and as issues exactly the bullet lines between 'CRITICAL ISSUES:'
\* and 'QUICK WINS:' without their leading '- '.
C14_AllBulletLines ==
    Parsed =>
        \A k \in 1..Len(fin.response) :
            IsWellFormed(fin.response[k]) =>
                /\ fout[k].seoScore = fin.response[k].score
                /\ fout[k].priority = fin.response[k].priority
                /\ fout[k].issues = BulletTexts(fin.response[k].issueLines)

\* C14, amended: score and priority as claimed; the issues are the first
\* three of those bullet lines (all of them when there are at most three).
C14_FirstThreeBulletLines ==
    Parsed =>
        \A k \in 1..Len(fin.response) :
            IsWellFormed(fin.response[k]) =>
                /\ fout[k].seoScore = fin.response[k].score
                /\ fout[k].priority = fin.response[k].priority
                /\ fout[k].issues =
                      Slice(BulletTexts(fin.response[k].issueLines), 0, IssueLimit)

\* the fixture was parsed to score 72, priority High and its one issue, and
\* a section of four issues to its first three
C14_Witness ==
    /\ Parsed
    /\ Len(fout) = 2
    /\ IsWellFormed(fin.response[1])
    /\ fout[1].seoScore = 72
    /\ fout[1].priority = "High"
    /\ fout[1].issues = <<"Missing meta description">>
    /\ IsWellFormed(fin.response[2])
    /\ Len(BulletTexts(fin.response[2].issueLines)) = 4
    /\ Len(fout[2].issues) = 3

\* 1 when the condition holds, else 0
Ind(cond) == IF cond THEN 1 ELSE 0

\* the deterministic score of a crawl record, as the claim states it
StatedFallbackScore(page) ==
    LET sum == 50 + 15 * Ind(page.Title # "") + 15 * Ind(page.Meta # "")
                  + 10 * Ind(page.H1 # "") + 10 * Ind(page.WordCount > 300)
                  + 10 * Ind(page.StatusCode = "200")
    IN  IF sum > 100 THEN 100 ELSE sum

\* C15: when a section has no parseable SEO SCORE, the score of its analysis
\* is min(100, 50 + 15 title + 15 meta description + 10 H1 + 10 word count
\* > 300 + 10 status 200) of the original record at its position; a record
\* with all five scores 100.
C15_FallbackScore ==
    Parsed =>
        \A k \in 1..Len(fin.response) :
            (fin.response[k].score < 0 /\ k <= Len(fin.originalBatch)) =>
                /\ fout[k].seoScore = StatedFallbackScore(fin.originalBatch[k])
                /\ ( /\ fin.originalBatch[k].Title # ""
                     /\ fin.originalBatch[k].Meta # ""
                     /\ fin.originalBatch[k].H1 # ""
                     /\ fin.originalBatch[k].WordCount > 300
                     /\ fin.originalBatch[k].StatusCode = "200" )
                   => fout[k].seoScore = 100

\* sections without score were parsed for a record with all five conditions
\* (100) and for one with title, H1 and status only (85)
C15_Witness ==
    /\ Parsed
    /\ \E k \in 1..Len(fout) :
          /\ k <= Len(fin.originalBatch)
          /\ fin.response[k].score < 0
          /\ fin.originalBatch[k].WordCount = 400
          /\ fin.originalBatch[k].Title # ""
          /\ fout[k].seoScore = 100
    /\ \E k \in 1..Len(fout) :
          /\ k <= Len(fin.originalBatch)
          /\ fin.response[k].score < 0
          /\ fout[k].seoScore = 85

\* C16: every analysis the pipeline produces, parsed from a reply or made by
\* a fallback scorer, has a score in 0..100, whatever number the reply
\* carries after 'SEO SCORE:'.
C16_ScoreInRange ==
    Parsed => \A k \in 1..Len(fout) : fout[k].seoScore \in 0..100

\* C17: every analysis has a priority that is exactly High, Medium or Low
\* (Medium when the section has no PRIORITY field), so the High + Medium +
\* Low counts of the aggregator add up to the number of analyses.
C17_PriorityIsOneOfThree ==
    Parsed =>
        /\ \A k \in 1..Len(fout) :
              /\ fout[k].priority \in {"High", "Medium", "Low"}
              /\ fin.response[k].priority = "" => fout[k].priority = "Medium"
        /\ LET priorities == _extractKeyMetrics(fout).priorities
           IN  priorities.high + priorities.medium + priorities.low = Len(fout)

\* Low < Medium < High < Very High ('Unknown' is none of the levels)
ImpactRank(impact) ==
    CASE impact = "Low" -> 1
      [] impact = "Medium" -> 2
      [] impact = "High" -> 3
      [] impact = "Very High" -> 4
      [] OTHER -> 0

\* Low < Medium < High
PriorityRank(q) ==
    CASE q = "Low" -> 1 [] q = "Medium" -> 2 [] OTHER -> 3

\* impact a is not lower than impact b ('Unknown', the impact of score 0, is
\* outside the order and compared with nothing)
NotLower(a, b) ==
    ImpactRank(a) = 0 \/ ImpactRank(b) = 0 \/ ImpactRank(a) >= ImpactRank(b)

\* C18: _calculateEstimatedImpact is monotone: for a fixed priority a lower
\* score never gives a lower impact, and for a fixed score a higher priority
\* never gives a lower impact, for every score in 0..100.
C18_ImpactMonotone ==
    (fpc = "done" /\ fin.fn = "_calculateEstimatedImpact") =>
        /\ \A lower \in 0..fin.score :
              NotLower(_calculateEstimatedImpact(lower, fin.priority), fout)
        /\ \A higher \in Priorities :
              PriorityRank(higher) > PriorityRank(fin.priority) =>
                  NotLower(_calculateEstimatedImpact(fin.score, higher), fout)

\* an aggregator has returned
Aggregated == fpc = "done" /\ fin.fn \in Aggregators

\* C19: aggregating an empty list of analyses returns an average score of 0
\* and a count of 0 in every score band and every priority bucket, without
\* throwing (each aggregator returns; the issue table is empty).
C19_EmptyListAggregates ==
    (Aggregated /\ fin.perPageAnalysis = <<>>) =>
        CASE fin.fn = "_extractKeyMetrics" ->
                /\ fout.overallScore = 0
                /\ fout.totalPages = 0
                /\ \A b \in DOMAIN fout.priorities : fout.priorities[b] = 0
                /\ \A b \in DOMAIN fout.scoreDistribution : fout.scoreDistribution[b] = 0
          [] fin.fn = "_generateEnhancedStatistics" ->
                /\ fout.average = 0
                /\ fout.highPerforming = 0
                /\ fout.needsImprovement = 0
                /\ \A b \in DOMAIN fout.distribution : fout.distribution[b] = 0
          [] OTHER -> fout = <<>>

\* the key metrics of an empty list were computed
C19_Witness ==
    /\ Aggregated
    /\ fin.fn = "_extractKeyMetrics"
    /\ fin.perPageAnalysis = <<>>
    /\ DOMAIN fout.scoreDistribution =
          {"excellent", "good", "fair", "poor", "critical"}

\* the list in the order q
Permuted(list, q) == [k \in 1..Len(list) |-> list[q[k]]]

\* C20: aggregation is order-independent: for any permutation of the list
\* the average score, the score histogram and the retained issue-frequency
\* table (counts sorted descending, top 10 kept) are identical, also when
\* several issues have equal counts.
C20_OrderIndependent ==
    Aggregated =>
        \A q \in Permutations(1..Len(fin.perPageAnalysis)) :
            Aggregate(fin.fn, Permuted(fin.perPageAnalysis, q)) = fout

\* the mean of all scores of the list, rounded as the reports print it
MeanOfAll(perPageAnalysis) ==
    LET n == Len(perPageAnalysis)
    IN  IF n = 0 THEN 0
        ELSE Round(SumOf([k \in 1..n |-> perPageAnalysis[k].seoScore]), n)

\* C21: the average score of each aggregator is the mean over all non-null
\* scores, a score of 0 counting as a score, and 0 when there is none; so the
\* executive-summary metric, the dashboard statistics and the per-page
\* summary agree on the same input.
C21_AveragesAgree ==
    (fpc = "done" /\ fin.fn = "_generateSummaryReport") =>
        /\ fout.averageScore = MeanOfAll(fin.perPageAnalysis)
        /\ _extractKeyMetrics(fin.perPageAnalysis).overallScore
              = MeanOfAll(fin.perPageAnalysis)
        /\ _generateEnhancedStatistics(fin.perPageAnalysis).average
              = MeanOfAll(fin.perPageAnalysis)

\* position a of the list comes before position b in the order by score,
\* ties broken by the original position
ComesBefore(list, a, b, descending) ==
    \/ IF descending THEN list[a].seoScore > list[b].seoScore
       ELSE list[a].seoScore < list[b].seoScore
    \/ list[a].seoScore = list[b].seoScore /\ a < b

\* the position of the list that has rank k in that order
Ranked(list, k, descending) ==
    CHOOSE p \in 1..Len(list) :
        Cardinality({ q \in 1..Len(list) : ComesBefore(list, q, p, descending) })
            = k - 1

\* C22: _getWorstPerformingPages(analyses, N) returns the min(N, number of
\* scored pages) pages of lowest score in ascending order and
\* _getTopPerformingPages the pages of highest score in descending order,
\* ties in the original order; a page whose score is 0 is a scored page.
C22_RankedPages ==
    (fpc = "done" /\ fin.fn \in {"_getTopPerformingPages", "_getWorstPerformingPages"}) =>
        LET list == fin.perPageAnalysis
            descending == (fin.fn = "_getTopPerformingPages")
        IN  /\ Len(fout) = Min(fin.count, Len(list))
            /\ \A k \in 1..Len(fout) :
                  /\ fout[k].url = list[Ranked(list, k, descending)].url
                  /\ fout[k].score = list[Ranked(list, k, descending)].seoScore

\* some call to the API has been issued
LlmCallIssued == \E c \in DOMAIN call : call[c].nCalls > 0

\* C23: when OPENAI_API_KEY is missing the failure is raised at startup: no
\* crawl is started and no chunk or page-batch call is ever issued.
C23_MissingKeyFailsAtStartup ==
    ~hasKey => /\ wpc \in {"boot", "loadFailed"}
               /\ ~LlmCallIssued
               /\ cpc = "idle" /\ dpc = "idle"

C23_Witness == ~hasKey /\ wpc = "loadFailed"

\* C24: when no usable row remains after loading and filtering the export,
\* analyzeWebsite fails with an error: no LLM call is issued and no report
\* is written.
C24_NoUsableRowsFailsFast ==
    (wpc # "boot" /\ hasKey /\ _filterActualPages(csvData) = <<>>) =>
        /\ ~LlmCallIssued
        /\ wpc # "reported"

\* C25: with a non-empty input and the credential present, analyzeCSVData
\* and analyzeIndividualPages return a result for every pattern of call
\* failures, the failure of every attempt of the final synthesis call
\* included: the run never fails inside the analysis.
C25_AnalysisNeverFails ==
    (hasKey /\ _filterActualPages(csvData) # <<>>) =>
        ~(wpc = "failed" /\ dmode # "none")

\* C29: the request of the final narrative synthesis is built from the
\* per-batch results: two runs for the same site whose chunk results differ
\* send different request content in _generateFinalAnalysis.
C29_RequestDependsOnChunkResults ==
    (fpc = "done" /\ fin.fn = "_generateFinalAnalysis" /\ fin.runA # fin.runB) =>
        fout.a # fout.b

\* C26: the chunking strategy of the site analysis is chosen by input size
\* with the threshold at 500 rows: at most 500 rows are chunked
\* token-bounded, more than 500 rows fixed-size.
C26_StrategyThreshold ==
    (op = "analyzeCSVData" /\ cpc \in {"loop", "done"}) =>
        mode = IF Len(rows) > SmartSizeThreshold THEN "bySize" ELSE "byTokens"

\* a step of the cache: nothing, a clear, an insertion at the end, or an
\* overflow that drops the 500 oldest entries and keeps the new one last
CacheStep ==
    \/ tokenCache' = tokenCache
    \/ tokenCache' = <<>>
    \/ /\ Len(tokenCache) < CacheLimit
       /\ Len(tokenCache') = Len(tokenCache) + 1
       /\ SubSeq(tokenCache', 1, Len(tokenCache)) = tokenCache
       /\ tokenCache'[Len(tokenCache')].key = CacheKey(fout'.text)
    \/ /\ Len(tokenCache) = CacheLimit
       /\ Len(tokenCache') = CacheLimit + 1 - CacheEvict
       /\ SubSeq(tokenCache', 1, CacheLimit - CacheEvict)
             = SubSeq(tokenCache, CacheEvict + 1, CacheLimit)
       /\ tokenCache'[Len(tokenCache')].key = CacheKey(fout'.text)

\* C27: the token cache is bounded: after any sequence of estimateTokensFast
\* and clearCache calls it holds at most 2000 entries, and an overflow
\* evicts the 500 oldest-inserted entries and never the entry just inserted.
C27_CacheBounded ==
    /\ [](Len(tokenCache) <= CacheLimit)
    /\ [][CacheStep]_vars

\* the cache after its first overflow: the entry of text 501 is the oldest
C27_Witness ==
    /\ fin.fn = "estimateTokensFast"
    /\ Len(tokenCache) = CacheLimit + 1 - CacheEvict
    /\ tokenCache[1].key = CacheKey(TextOf(CacheEvict + 1))
    /\ tokenCache[Len(tokenCache)].key = CacheKey(TextOf(CacheLimit + 1))

\* C28: estimateTokensFast(text) returns ceil(length(text) / 4), 0 for the
\* empty text, in every cache state (after key collisions, evictions and
\* clearCache); a longer text never gets a smaller estimate.
C28_EstimateIsCeilQuarter ==
    (fin.fn = "estimateTokensFast" /\ fpc = "called" /\ fout.text # ClearCall) =>
        /\ fout.tokens = CeilDiv(fout.text.len, CharsPerToken)
        /\ fout.prev.len >= fout.text.len => fout.prev.tokens >= fout.tokens
        /\ fout.prev.len <= fout.text.len => fout.prev.tokens <= fout.tokens

\* the estimate of the twin of a cached text
C28_Witness ==
    /\ fin.fn = "estimateTokensFast"
    /\ fpc = "called"
    /\ fout.text.tail = 1
    /\ fout.text.len > PrefixLen
    /\ CacheHas(tokenCache, CacheKey(fout.text))
    /\ fout.tokens = CeilDiv(fout.text.len, CharsPerToken)

\* the page batches whose call has been issued and has not settled
InFlight == { c \in DOMAIN call : call[c].promise = "pending" }

\* the page batches whose call has been issued
Issued(cl) == { c \in DOMAIN cl : cl[c].st # "none" }

\* every batch of the windows before the window of batch c has an outcome
EarlierWindowsSettled(c) ==
    \A d \in DOMAIN call :
        (d - 1) \div concurrentBatches < (c - 1) \div concurrentBatches =>
            /\ call[d].promise = "resolved"
            /\ call[d].value.kind \in {"parsed", "noContent", "fallback"}

\* C30: in analyzeIndividualPages at most 2 page-batch calls are in flight
\* at any time, and the calls of a window are issued only after every batch
\* of the previous window has produced an outcome (parsed or fallback) and
\* the 1500 ms delay has elapsed.
C30_WindowedPageBatches ==
    /\ [](dmode = "pages" =>
            /\ Cardinality(InFlight) <= concurrentBatches
            /\ \A c \in Issued(call) : EarlierWindowsSettled(c))
    /\ [][dmode = "pages" =>
            \A c \in Issued(call') \ Issued(call) :
                \/ dpc = "idle" /\ c <= concurrentBatches
                \/ dpc = "backpressure"]_vars

\* a call of the second window is in flight
C30_Witness ==
    /\ dmode = "pages"
    /\ \E c \in InFlight : c > concurrentBatches

\* C31: the two fallback scorers agree: the score _generateBasicPageAnalysis
\* gives to a page of a degraded batch equals _calculateBasicScore of the
\* same record, also for records with no title or no meta description.
C31_FallbackScorersAgree ==
    dmode = "pages" =>
        \A c \in DOMAIN call :
            call[c].value.kind = "fallback" =>
                \A k \in 1..Len(call[c].value.analyses) :
                    call[c].value.analyses[k].seoScore
                        = _calculateBasicScore(batches[c][k])

\* the positions of the workflow at which the audit is running or has returned
AuditSteps == {"analyzeCSVData", "chunking", "processChunks", "finalAnalysis",
               "analyzeIndividualPages", "reported"}

\* C32: the steps of executeWorkflow are strictly ordered: a crawl is started
\* only for a URL that passed the validation, the audit runs only after the
\* crawl returned successfully, and once the validation or the crawl has
\* failed no later step is entered and no result is produced
C32_StepsStrictlyOrdered ==
    /\ [](/\ wpc = "crawling" => url = "valid" /\ currentStep = "website_crawling"
          /\ wpc \in AuditSteps => url = "valid" /\ crawlResult = "success"
          /\ crawlResult # "success" => rows = <<>> /\ call = <<>> /\ results = <<>>
          /\ wpc = "reported" => currentStep = "result_preparation"
          /\ (wpc = "failed" /\ currentStep \in {"url_validation", "website_crawling"})
                => crawlResult # "success")
    /\ [][wpc = "failed" => wpc' = "failed" /\ currentStep' = currentStep]_vars

\* the crawl of a valid URL has failed
C32_CrawlFailed ==
    wpc = "failed" /\ currentStep = "website_crawling" /\ url = "valid"

\* C33: two concurrent runs whose URLs map to the same slug do not
\* interfere: between the moment the crawl of a run has written its export
\* and the moment its audit has loaded it, the directory holds that export,
\* and the CSV an audit has loaded is the one its own crawl wrote
C33_ConcurrentRunsIsolated ==
    \A a \in DOMAIN runs :
        /\ runs[a].pc \in {"exported", "crawled"} =>
               exportDir[generateSlug(runs[a].url)] = [exists |-> TRUE, csv |-> a]
        /\ runs[a].read \in {0, a}

\* C34: when analyzeIndividualPages has returned, the analysis at every
\* index of its result is the analysis of the crawl row at the same index,
\* whatever the replies held and whichever batches failed
C34_AnalysesAlignedWithRows ==
    (dmode = "pages" /\ dpc = "done") =>
        \A k \in 1..Len(results) :
            /\ k <= Len(pageData)
            /\ results[k].url = pageData[k].Address

\* C36: execute with retries >= 1 runs the command at most retries times,
\* returns at the first successful run, waits the retry delay only between
\* two attempts, and after retries failed runs throws an error naming the
\* number of attempts without waiting again
C36_CrawlRetries ==
    /\ [](crawl.retries >= 1 =>
            /\ crawl.st \in {"running", "returned", "waiting", "threw"}
            /\ crawl.nRuns <= crawl.retries
            /\ crawl.nRuns = crawl.attempt
            /\ \A k \in DOMAIN crawl.waits : crawl.waits[k] = 5000
            /\ crawl.st \in {"running", "returned"} =>
                   /\ Len(crawl.errors) = crawl.nRuns - 1
                   /\ Len(crawl.waits) = crawl.nRuns - 1
            /\ crawl.st = "waiting" =>
                   /\ crawl.nRuns < crawl.retries
                   /\ Len(crawl.errors) = crawl.nRuns
                   /\ Len(crawl.waits) = crawl.nRuns
            /\ crawl.st = "threw" =>
                   /\ crawl.nRuns = crawl.retries
                   /\ Len(crawl.errors) = crawl.retries
                   /\ Len(crawl.waits) = crawl.retries - 1
                   /\ crawl.thrown = crawl.retries
            /\ crawl.st # "threw" => crawl.thrown = 0)
    /\ [][crawl.st \in {"returned", "threw"} => crawl' = crawl]_vars

\* every one of at least two attempts has failed and the error is thrown
C36_GaveUp ==
    /\ crawl.st = "threw"
    /\ crawl.retries >= 2
    /\ Len(crawl.waits) = crawl.retries - 1

\* C37: within one analyzeWebsite run the executive summary is written into
\* the session directory of the comprehensive report, however much time
\* passes between the two calls
C37_SummaryInSameSessionDir ==
    report.pc = "summary" => report.summary = report.comprehensive

\* C38: every chunking operation terminates, for every input and every
\* numeric option value, 0 included: each iteration of its loop moves the
\* loop index forward, so no iteration leaves the loop where it was
C38_EveryChunkingTerminates ==
    [][(/\ op \in {"chunkBySize", "chunkByTokensFast", "smartChunk",
                   "adaptiveChunk", "efficientChunkForLargeData"}
        /\ cpc = "loop" /\ cpc' = "loop") => (i' > i \/ ri' > ri)]_vars

\* C12: a reply with no message content is handled like a network or
\* rate-limit failure: the call is retried, and once the attempts are used up
\* the batch has the fallback analyses of its pages, not zero analyses.
C12_MalformedReplyDegrades ==
    dmode = "pages" =>
        \A c \in DOMAIN call :
            (Settled(call[c]) /\ call[c].value.kind = "noContent") =>
                /\ call[c].nCalls = retries
                /\ call[c].value.analyses = _generateBasicPageAnalysis(batches[c])

\* C11: between every two consecutively dispatched windows the chunk
\* dispatcher awaits the backpressure delay before it issues the next
\* window's calls, also after a window with a failed batch; no delay is
\* awaited after the last window.
C11_DelayBetweenWindows ==
    /\ []((dmode = "chunks" /\ dpc = "backpressure") => di + Limit < Len(batches))
    /\ [][(dmode = "chunks" /\ di' > di /\ dpc' = "awaitAll")
              => dpc = "backpressure"]_vars

\* what analyzeIndividualPages has returned: the analyses of every batch, in
\* the order of the batches; a batch whose call threw has the rule-based
\* analysis of each of its pages; every batch was dispatched and has settled
PagesReturnShape ==
    /\ results = Flatten([c \in 1..Len(batches) |-> call[c].value.analyses])
    /\ \A c \in 1..Len(batches) :
          /\ call[c].nCalls >= 1
          /\ call[c].promise = "resolved"
          /\ call[c].st = "threw" =>
                /\ call[c].value.kind = "fallback"
                /\ Len(call[c].value.analyses) = Len(batches[c])
                /\ \A j \in 1..Len(batches[c]) :
                      call[c].value.analyses[j] = BasicAnalysisOf(batches[c][j])

\* C7: when the call of a page batch fails on every attempt,
\* analyzeIndividualPages still ends without throwing, the batch gets
\* fallback-scored analyses of its pages, and every later batch is still
\* dispatched and analysed.
C7_FailedBatchDegrades ==
    /\ []((dpc = "done" /\ Len(pageData) <= LargeSiteThreshold) => PagesReturnShape)
    /\ <>(dpc = "done")

\* a batch of the first window failed for good, and a batch of a later
\* window was analysed from a reply
C7_Witness ==
    /\ dmode = "pages"
    /\ dpc = "done"
    /\ Len(batches) >= 3
    /\ call[1].st = "threw"
    /\ call[Len(batches)].st = "returned"


\* the batches that hold page p of the input
BatchesHolding(p) ==
    { c \in DOMAIN batches : \E k \in DOMAIN batches[c] : batches[c][k] = pageData[p] }

\* C35: for more than 1000 pages analyzeIndividualPages issues no call and
\* returns exactly 50 rule-based analyses, those of the first 50 pages in
\* input order; for at most 1000 pages every page belongs to exactly one
\* batch, and every batch has been dispatched when the function returns
C35_LargeSitesSkippedSmallSitesPartitioned ==
    dmode = "pages" =>
        IF Len(pageData) > 1000
        THEN /\ call = <<>>
             /\ batches = <<>>
             /\ dpc = "done" =>
                    /\ Len(results) = 50
                    /\ \A k \in 1..50 : results[k] = BasicAnalysisOf(pageData[k])
        ELSE dpc # "idle" =>
                /\ \A p \in DOMAIN pageData :
                       /\ Cardinality(BatchesHolding(p)) = 1
                       /\ \A c \in BatchesHolding(p) :
                              Cardinality({ k \in DOMAIN batches[c] :
                                              batches[c][k] = pageData[p] }) = 1
                /\ \A c \in DOMAIN batches : batches[c] # <<>>
                /\ dpc = "done" => Issued(call) = DOMAIN batches

\* a site of more than 1000 pages has been answered without any call
C35_LargeSiteAnswered ==
    /\ dmode = "pages"
    /\ Len(pageData) > 1000
    /\ dpc = "done"
    /\ Len(results) = 50

====
